---- MODULE Spec2Model ----
(***************************************************************************)
(* JourneyMAPS: the execution and caching engine (jmaps.journey).          *)
(*                                                                         *)
(* One Journey with one registered path runs against one cache store.      *)
(* The root environment is                                                 *)
(*     JDict{ x: JValue, d: JDict{ y: JValue } }                           *)
(* so that the projection has a flat key "x" and a dotted key "d.y".       *)
(* The path definition (save_datetime, whether its result carries a file   *)
(* entry) and cache_db_meta are inputs fixed at construction.              *)
(***************************************************************************)
EXTENDS Integers, Sequences, FiniteSets, TLC

(* ---------------------------------------------------------------- bounds *)
\* Result rows a save_datetime path may accumulate before the model stops saving.
MaxStampRows == 2

(* ------------------------------------------------------------- constants *)
\* SQL NULL / Python None for integer columns (version numbers, created_at).
Null == -1
PathName == "double"
root == "root"

(* ------------------------------------------------------- parameter tree *)
Nodes == {"root", "x", "d", "d.y"}
Leaves == {"x", "d.y"}
\* JDict.data of every JDict node; a JValue has no children.
Children ==
  [n \in Nodes |-> CASE n = "root" -> {"x", "d"}
                     [] n = "d"    -> {"d.y"}
                     [] OTHER      -> {}]
IsDict(n) == n \in {"root", "d"}
\* param_used.split(REF_SEP): the nodes visited from the root down to the leaf.
param_path(key) == IF key = "d.y" THEN <<"d", "d.y">> ELSE <<key>>

IntV(n) == [t |-> "int", v |-> n]
StrV(n) == [t |-> "str", v |-> n]
XVals == {IntV(1), StrV(1)}
YVals == {IntV(1), IntV(2)}
ValsOf(k) == IF k = "x" THEN XVals ELSE YVals
EnvValues == {f \in [Leaves -> XVals \cup YVals] : \A k \in Leaves : f[k] \in ValsOf(k)}

\* jmalc.get_sql_type / cast_sql_type on the values the model draws (int, str).
get_sql_type(value) == value.t
cast_sql_type(value) == value

RECURSIVE Subtree(_)
Subtree(n) == {n} \cup UNION {Subtree(c) : c \in Children[n]}

\* lock without the recursion into the children.
lock_shallow(locked, n) == [locked EXCEPT ![n] = TRUE]

\* JParam.lock / unlock / reset_usage: the node and, recursively, its children.
lock(locked, n) == [m \in Nodes |-> IF m \in Subtree(n) THEN TRUE ELSE locked[m]]
unlock(locked, n) == [m \in Nodes |-> IF m \in Subtree(n) THEN FALSE ELSE locked[m]]
reset_usage(used, n) == [m \in Nodes |-> IF m \in Subtree(n) THEN FALSE ELSE used[m]]

\* JParam.get_value through JDict.__getitem__ / __getattr__: marks that node only.
get_value(used, n) == [used EXCEPT ![n] = TRUE]

RECURSIVE ReadAll(_, _)
\* Reading the nodes of a walk in order.
ReadAll(used, walk) ==
  IF walk = <<>> THEN used ELSE ReadAll(get_value(used, Head(walk)), Tail(walk))

RECURSIVE SqlLeaves(_, _, _)
\* JDict.get_sql_data: a child is projected iff child.used or show_unused,
\* a JDict child contributes its own projection under dotted keys.
SqlLeaves(n, used, show_unused) ==
  UNION { IF used[c] \/ show_unused
            THEN (IF IsDict(c) THEN SqlLeaves(c, used, show_unused) ELSE {c})
            ELSE {}
          : c \in Children[n] }

get_sql_data(env, show_unused) ==
  [k \in SqlLeaves(root, env.used, show_unused) |-> cast_sql_type(env.value[k])]

\* jmalc.get_sql_schema
get_sql_schema(sql_data) == [k \in DOMAIN sql_data |-> get_sql_type(sql_data[k])]

\* journey.get_filename: SHA-256 of the JSON with sorted keys; the digest is
\* modelled as an injective tag of the key-sorted mapping.
get_filename(hashable) == <<"sha256", hashable>>

(* ------------------------------------------------------------ variables *)
VARIABLES
  env,                          \* Journey.env: the root environment's leaf values
  paths,                        \* the registered path: [save_datetime, has_file]
  cache_db_meta,                \* Journey.cache_db_meta
  db_current_path_versions,     \* name -> version, the in-memory denormalisation
  db_current_path_env_schemas,  \* name -> env_schema
  db_current_path_file_schemas, \* name -> file_schema
  dbPath,                       \* table path: name -> current_version
  dbPathVersion,                \* table path_version: committed rows
  dbResult,                     \* table result: committed rows
  now,                          \* the clock read by datetime.now
  WRITERS, READERS, RESOLVED_WRITERS,   \* io._WRITERS, _READERS, _RESOLVED_WRITERS
  fs,                           \* files under result_directory: file path -> object
  pc,                           \* "idle", or "hook" while JPath._run is executing
  local_env,                    \* the run's deep copy: [value, used, locked]
  cur,                          \* the run in flight: [force_run_to_depth, disable, todo]
  last,                         \* outcome of the latest run (history)
  ptree,                        \* a parameter tree driven through its own API
  buf,                          \* a Buffer child of that tree
  reg,                          \* Journey.paths as a graph: name -> [subpaths, batched_subpaths]
  gstat,                        \* outcome of the latest registry operation
  heap,                         \* environments by object identity (0 is Journey.env)
  stack                         \* the frames of Journey._run in a run over subpaths

journey_vars == <<env, paths, cache_db_meta, db_current_path_versions,
                  db_current_path_env_schemas, db_current_path_file_schemas,
                  dbPath, dbPathVersion, dbResult, now, WRITERS, READERS,
                  RESOLVED_WRITERS, fs, pc, local_env, cur, last>>
param_vars == <<ptree, buf>>
graph_vars == <<reg, gstat>>
tree_vars == <<heap, stack>>
vars == <<journey_vars, param_vars, graph_vars, tree_vars>>

(* ---------------------------------------------------------- IO registry *)
\* cls.__mro__ of the two result classes: Derived subclasses Base.
mro(cls) == IF cls = "Derived" THEN <<"Derived", "Base", "object">>
                               ELSE <<"Base", "object">>

\* PathResult.file is None (the empty mapping here) or {"f": object}.
None == <<>>
NoPath == <<>>
NoResult == [sql |-> Null, file |-> None]

RECURSIVE first_registered(_, _)
\* The loop "for typ in cls.__mro__: if typ in _WRITERS" of io.write.
first_registered(types, writers) ==
  IF types = <<>> THEN "none"
  ELSE IF Head(types) \in DOMAIN writers THEN Head(types)
  ELSE first_registered(Tail(types), writers)

\* io.write: the type it returns, the memo and the file it leaves.
write(obj, file_path, resolved, files) ==
  LET cls == obj.type IN
  IF cls \in DOMAIN resolved
    THEN [ok |-> TRUE, cls |-> cls, resolved |-> resolved,
          fs |-> (file_path :> obj) @@ files]
    ELSE LET typ == first_registered(mro(cls), WRITERS) IN
         IF typ = "none"
           THEN [ok |-> FALSE, cls |-> cls, resolved |-> resolved, fs |-> files]
           ELSE [ok |-> TRUE, cls |-> typ,
                 resolved |-> (cls :> WRITERS[typ]) @@ resolved,
                 fs |-> (file_path :> obj) @@ files]

\* io.read: readers are matched by exact type.
read(cls, file_path) ==
  IF cls \in DOMAIN READERS /\ file_path \in DOMAIN fs
    THEN [ok |-> TRUE, obj |-> fs[file_path]]
    ELSE [ok |-> FALSE, obj |-> None]

\* file_path.with_name(file_path.name + "_" + k)
with_key(file_path, k) == <<file_path, k>>

\* PathResult.to_file for a result with at most one file entry "f".
to_file(result, file_path, resolved, files) ==
  IF result.file = None
    THEN [ok |-> TRUE, file_schema |-> None, resolved |-> resolved, fs |-> files]
    ELSE LET w == write(result.file["f"], with_key(file_path, "f"), resolved, files) IN
         [ok |-> w.ok, file_schema |-> [k \in {"f"} |-> w.cls],
          resolved |-> w.resolved, fs |-> w.fs]

\* PathResult.from_file
from_file(sql, file_path, file_schema) ==
  IF file_schema = None \/ file_path = NoPath
    THEN [ok |-> TRUE, result |-> [sql |-> sql, file |-> None]]
    ELSE LET r == read(file_schema["f"], with_key(file_path, "f")) IN
         [ok |-> r.ok,
          result |-> [sql |-> sql, file |-> IF r.ok THEN [k \in {"f"} |-> r.obj] ELSE None]]

(* ---------------------------------------------------------- cache store *)
\* select(DBPathVersion).where(name, version): the rows, at most one (primary key).
version_rows(path_name, num) ==
  {v \in dbPathVersion : v.name = path_name /\ v.version = num}

\* select(DBResult).where(path_name, path_version_num, environment, created_at IS NULL)
result_rows(results, path_name, num, environment) ==
  {r \in results : /\ r.path_name = path_name
                   /\ r.path_version_num = num
                   /\ r.environment = environment
                   /\ r.created_at = Null}

\* The walk of load_path_results over the keys of env_schema: every node on the
\* way to a leaf is read through JDict.__getitem__, which marks it used.
RECURSIVE probe_usage(_, _)
probe_usage(used, keys) ==
  IF keys = {} THEN used
  ELSE LET k == CHOOSE k \in keys : TRUE IN
       probe_usage(ReadAll(used, param_path(k)), keys \ {k})

\* temp_env[param_used] = cast_sql_type(value) (no dtype is set in this environment).
temp_env_of(value, env_schema) ==
  [k \in DOMAIN env_schema |-> cast_sql_type(value[k])]

\* Journey.load_path_results. outcome is "hit" (a PathResult), "miss" (None) or
\* "raise"; used and the three dictionaries are what the call leaves behind.
load_path_results(lenv, path_name) ==
  LET same == [outcome |-> "miss", error |-> "", result |-> NoResult,
               version |-> Null, used |-> lenv.used,
               versions |-> db_current_path_versions,
               env_schemas |-> db_current_path_env_schemas,
               file_schemas |-> db_current_path_file_schemas]
      vcached == cache_db_meta /\ path_name \in DOMAIN db_current_path_versions
      scached == cache_db_meta /\ path_name \in DOMAIN db_current_path_env_schemas
  IN
  IF paths.save_datetime THEN same
  ELSE IF ~vcached /\ path_name \notin DOMAIN dbPath THEN same
  ELSE
    LET num1 == IF vcached THEN db_current_path_versions[path_name]
                ELSE dbPath[path_name]
        versions1 == IF cache_db_meta /\ ~vcached
                       THEN (path_name :> num1) @@ db_current_path_versions
                       ELSE db_current_path_versions
        after1 == [same EXCEPT !.versions = versions1]
    IN
    IF ~scached /\ vcached
      THEN \* line 468 reads the local "path", bound only on the other branch
           [after1 EXCEPT !.outcome = "raise", !.error = "UnboundLocalError"]
    ELSE
      LET num == IF scached THEN num1 ELSE dbPath[path_name]
          pvs == version_rows(path_name, num)
      IN
      IF ~scached /\ pvs = {} THEN after1
      ELSE
        LET pv == CHOOSE v \in pvs : TRUE
            env_schema == IF scached THEN db_current_path_env_schemas[path_name]
                          ELSE pv.env_schema
            file_schema == IF scached THEN db_current_path_file_schemas[path_name]
                           ELSE pv.file_schema
            env_schemas1 == IF cache_db_meta /\ ~scached
                              THEN (path_name :> env_schema) @@ db_current_path_env_schemas
                              ELSE db_current_path_env_schemas
            file_schemas1 == IF cache_db_meta /\ ~scached
                               THEN (path_name :> file_schema) @@ db_current_path_file_schemas
                               ELSE db_current_path_file_schemas
            temp_env == temp_env_of(lenv.value, env_schema)
            probed == probe_usage(lenv.used, DOMAIN env_schema)
            rows == result_rows(dbResult, path_name, num, temp_env)
            after2 == [after1 EXCEPT !.env_schemas = env_schemas1,
                                     !.file_schemas = file_schemas1,
                                     !.version = num,
                                     !.used = probed]
        IN
        IF rows = {}
          THEN [after2 EXCEPT !.used = reset_usage(probed, root)]
        ELSE IF Cardinality(rows) > 1
          THEN [after2 EXCEPT !.outcome = "raise", !.error = "MultipleResultsFound"]
        ELSE
          LET row == CHOOSE r \in rows : TRUE
              ff == from_file(row.data, row.file_path, file_schema)
          IN
          IF ff.ok
            THEN [after2 EXCEPT !.outcome = "hit", !.result = ff.result]
            ELSE [after2 EXCEPT !.outcome = "raise", !.error = "TypeError"]

\* The lookup with file_schema compared by "= NULL", which matches no row, for
\* results without file entries.
schema_rows_eq_null(versions, path_name, env_schema, file_schema) ==
  {v \in versions : /\ v.name = path_name
                    /\ v.env_schema = env_schema
                    /\ v.file_schema = file_schema
                    /\ file_schema # <<>>}

\* select(DBPathVersion).where(name, env_schema, file_schema)
schema_rows(versions, path_name, env_schema, file_schema) ==
  {v \in versions : /\ v.name = path_name
                    /\ v.env_schema = env_schema
                    /\ v.file_schema = file_schema}

Max(S) == CHOOSE m \in S : \A n \in S : n <= m

\* Version numbers that start at 1 instead of 0.
next_version_from_one(versions, path_name) ==
  LET nums == {v.version : v \in {w \in versions : w.name = path_name}} IN
  IF nums = {} THEN 1 ELSE Max(nums) + 1

\* next_version = 0 if there is no version of the name, else the highest + 1.
next_version(versions, path_name) ==
  LET nums == {v.version : v \in {w \in versions : w.name = path_name}} IN
  IF nums = {} THEN 0 ELSE Max(nums) + 1

\* The number after the located version, which no PathVersion row has yet.
current_version_unwritten(versions, located) == located.version + 1

\* The version a save leaves in Path.current_version: the one it located or created.
current_version_after(versions, located) == located.version

\* The write without the save_datetime branch and without the lookup: a row
\* with created_at NULL is added every time.
write_result_insert_null(results, save_datetime, path_name, num, env_sql, result, file_path, file_schema, clock) ==
  results \cup
  {[path_name |-> path_name, path_version_num |-> num,
    environment |-> env_sql, data |-> result.sql,
    file_path |-> file_path, created_at |-> Null]}

\* Lines 569-600: the Result rows after the write for (name, version, env_sql).
write_result(results, save_datetime, path_name, num, env_sql, result, file_path, file_schema, clock) ==
  IF save_datetime
    THEN results \cup
         {[path_name |-> path_name, path_version_num |-> num,
           environment |-> env_sql, data |-> result.sql,
           file_path |-> IF file_schema # None THEN file_path ELSE NoPath,
           created_at |-> clock]}
    ELSE LET rows == result_rows(results, path_name, num, env_sql) IN
         IF rows = {}
           THEN results \cup
                {[path_name |-> path_name, path_version_num |-> num,
                  environment |-> env_sql, data |-> result.sql,
                  file_path |-> file_path, created_at |-> Null]}
           ELSE LET old == CHOOSE r \in rows : TRUE IN
                (results \ {old}) \cup
                {[old EXCEPT !.data = result.sql, !.file_path = file_path]}

SaveFailures == {"none", "file", "path", "version", "result"}

\* Journey.save_path_results. fail names the step at which the backend raises
\* ("none": every step succeeds). The record is the state the call leaves.
save_path_results(lenv, path_name, result, fail) ==
  LET env_sql == get_sql_data(lenv, FALSE)
      env_schema == get_sql_schema(env_sql)
      file_path == <<path_name, get_filename(env_sql)>>
      tf == to_file(result, file_path, RESOLVED_WRITERS, fs)
      start == [ok |-> FALSE, error |-> "", env_sql |-> env_sql,
                env_schema |-> env_schema, file_schema |-> tf.file_schema,
                version |-> Null, new_version |-> FALSE, updated |-> FALSE,
                dbPath |-> dbPath, dbPathVersion |-> dbPathVersion,
                dbResult |-> dbResult,
                versions |-> db_current_path_versions,
                env_schemas |-> db_current_path_env_schemas,
                file_schemas |-> db_current_path_file_schemas,
                resolved |-> tf.resolved, fs |-> fs, now |-> now]
  IN
  IF fail = "file" \/ ~tf.ok
    THEN [start EXCEPT !.error = "to_file"]
  ELSE
    LET written == [start EXCEPT !.fs = tf.fs]
        \* lines 526-535: insert the Path row and commit
        path1 == IF path_name \in DOMAIN dbPath THEN dbPath
                 ELSE (path_name :> Null) @@ dbPath
    IN
    IF fail = "path"
      THEN [written EXCEPT !.error = "path"]
    ELSE
      LET with_path == [written EXCEPT !.dbPath = path1]
          found == schema_rows(dbPathVersion, path_name, env_schema, tf.file_schema)
      IN
      IF Cardinality(found) > 1
        THEN [with_path EXCEPT !.error = "MultipleResultsFound"]
      ELSE IF fail = "version"
        THEN [with_path EXCEPT !.error = "version"]
      ELSE
        LET path_version ==
              IF found = {}
                THEN [name |-> path_name,
                      version |-> next_version(dbPathVersion, path_name),
                      env_schema |-> env_schema, file_schema |-> tf.file_schema]
                ELSE CHOOSE v \in found : TRUE
            versions1 == dbPathVersion \cup {path_version}
            num == current_version_after(versions1, path_version)
            with_version ==
              [with_path EXCEPT
                 !.dbPathVersion = versions1,
                 !.version = num,
                 !.new_version = (found = {}),
                 !.versions = IF cache_db_meta
                                THEN (path_name :> num) @@ db_current_path_versions
                                ELSE db_current_path_versions,
                 !.env_schemas = IF cache_db_meta
                                   THEN (path_name :> env_schema) @@ db_current_path_env_schemas
                                   ELSE db_current_path_env_schemas,
                 !.file_schemas = IF cache_db_meta
                                    THEN (path_name :> tf.file_schema) @@ db_current_path_file_schemas
                                    ELSE db_current_path_file_schemas]
            existing == result_rows(dbResult, path_name, num, env_sql)
        IN
        IF ~paths.save_datetime /\ Cardinality(existing) > 1
          THEN [with_version EXCEPT !.error = "MultipleResultsFound"]
        ELSE IF fail = "result"
          THEN [with_version EXCEPT !.error = "result"]
        ELSE
          [with_version EXCEPT
             !.ok = TRUE,
             !.updated = (~paths.save_datetime /\ existing # {}),
             !.dbPath = [path1 EXCEPT ![path_name] = num],
             !.dbResult = write_result(dbResult, paths.save_datetime, path_name, num,
                                       env_sql, result, file_path, tf.file_schema, now),
             !.now = IF paths.save_datetime THEN now + 1 ELSE now]

\* The steps of a save at which a backend failure can strike in the current state.
can_fail(lenv, path_name, result, fail) ==
  LET env_sql == get_sql_data(lenv, FALSE)
      tf == to_file(result, <<path_name, get_filename(env_sql)>>, RESOLVED_WRITERS, fs)
  IN
  CASE fail = "none" -> TRUE
    [] fail = "file" -> result.file # None
    [] fail = "path" -> path_name \notin DOMAIN dbPath
    [] fail = "version" ->
         schema_rows(dbPathVersion, path_name, get_sql_schema(env_sql), tf.file_schema) = {}
    [] fail = "result" -> TRUE

(* ------------------------------------------------------ path definition *)
\* JPath._run of the registered path: it reads x, and d.y when x is an integer
\* (each read through the public accessors, so reading d.y reads d first).
hook_reads(value) ==
  IF value["x"].t = "int" THEN <<"x", "d", "d.y">> ELSE <<"x">>

\* What the hook may return as PathResult.sql (standing for {"y": n}): the
\* sql-only idempotent path may return either value for the same parameters.
SqlVals == {0, 1}
hook_sql == IF paths.has_file \/ paths.save_datetime THEN {0} ELSE SqlVals

\* The PathResult the hook builds.
hook_result(sql) ==
  [sql |-> sql,
   file |-> IF paths.has_file
              THEN [k \in {"f"} |-> [type |-> "Derived", payload |-> sql]]
              ELSE None]

PathDefs == {[save_datetime |-> FALSE, has_file |-> FALSE],
             [save_datetime |-> FALSE, has_file |-> TRUE],
             [save_datetime |-> TRUE,  has_file |-> FALSE]}

(* ----------------------------------------------------------------- Init *)
NoUsage == [n \in Nodes |-> FALSE]
\* last.kind: "none", "hit", "load_raised", "miss" / "forced" (the hook is
\* running after a missed / skipped load), "hook_raised", "ran" (not saved),
\* "saved", "save_failed".  last.result: the PathResult returned or saved.
\* last.updated: the save found a Result row under its key and updated it.
NoRun == [kind |-> "none", result |-> NoResult, updated |-> FALSE]
Idle == [force_run_to_depth |-> 0, disable |-> FALSE, todo |-> <<>>]

Init ==
  /\ env \in EnvValues
  /\ paths \in PathDefs
  /\ cache_db_meta \in BOOLEAN
  /\ db_current_path_versions = <<>>
  /\ db_current_path_env_schemas = <<>>
  /\ db_current_path_file_schemas = <<>>
  /\ dbPath = <<>>
  /\ dbPathVersion = {}
  /\ dbResult = {}
  /\ now = 1
  \* io.register(Base, writer=..., reader=...) at import time
  /\ WRITERS = [t \in {"Base"} |-> "write_base"]
  /\ RESOLVED_WRITERS = [t \in {"Base"} |-> "write_base"]
  /\ READERS = [t \in {"Base"} |-> "read_base"]
  /\ fs = <<>>
  /\ pc = "idle"
  /\ local_env = [value |-> env, used |-> NoUsage, locked |-> NoUsage]
  /\ cur = Idle
  /\ last = NoRun
  /\ ptree = <<>> /\ buf = <<>>
  /\ reg = <<>> /\ gstat = <<>>
  /\ heap = <<>> /\ stack = <<>>

(* -------------------------------------------------------------- actions *)
store_vars == <<dbPath, dbPathVersion, dbResult, now>>
meta_vars == <<db_current_path_versions, db_current_path_env_schemas,
               db_current_path_file_schemas>>
io_vars == <<WRITERS, READERS, RESOLVED_WRITERS, fs>>
config_vars == <<paths, cache_db_meta>>
other_vars == <<param_vars, graph_vars, tree_vars>>

\* The user assigns a parameter of the root environment between runs
\* (JDict.__setitem__ on the unlocked Journey.env).
SetParam(k, v) ==
  /\ pc = "idle"
  /\ v \in ValsOf(k)
  /\ v # env[k]
  /\ env' = [env EXCEPT ![k] = v]
  /\ UNCHANGED <<store_vars, meta_vars, io_vars, config_vars, other_vars, pc, local_env, cur,
                 last>>

\* A new session: a fresh Journey on the same engine starts with empty
\* db_current_path_* dictionaries.
NewJourney ==
  /\ pc = "idle"
  /\ db_current_path_versions' = <<>>
  /\ db_current_path_env_schemas' = <<>>
  /\ db_current_path_file_schemas' = <<>>
  /\ UNCHANGED <<env, store_vars, io_vars, config_vars, other_vars, pc, local_env, cur, last>>

\* Journey.run / Journey._run up to the call of the path's hook: deep copy,
\* init_run, reset_usage, the load attempt, and JPath.run's env.lock().
Run(force, disable) ==
  /\ pc = "idle"
  /\ LET copy == [value |-> env, used |-> NoUsage, locked |-> NoUsage]
         attempt == force = 0 /\ ~disable
         ld == load_path_results(copy, PathName)
     IN
     /\ IF attempt
          THEN /\ db_current_path_versions' = ld.versions
               /\ db_current_path_env_schemas' = ld.env_schemas
               /\ db_current_path_file_schemas' = ld.file_schemas
          ELSE UNCHANGED meta_vars
     /\ IF attempt /\ ld.outcome = "raise"
          THEN /\ pc' = "idle"
               /\ local_env' = [copy EXCEPT !.used = ld.used]
               /\ cur' = Idle
               /\ last' = [NoRun EXCEPT !.kind = "load_raised"]
        ELSE IF attempt /\ ld.outcome = "hit"
          THEN \* the root path has no subpaths to run; the hook and save are skipped
               /\ pc' = "idle"
               /\ local_env' = [copy EXCEPT !.used = ld.used]
               /\ cur' = Idle
               /\ last' = [NoRun EXCEPT !.kind = "hit", !.result = ld.result]
        ELSE \* JPath.run: env.lock(), then self._run(...)
               /\ pc' = "hook"
               /\ local_env' = [copy EXCEPT !.used = IF attempt THEN ld.used ELSE copy.used,
                                            !.locked = lock(copy.locked, root)]
               /\ cur' = [force_run_to_depth |-> force, disable |-> disable,
                          todo |-> hook_reads(env)]
               /\ last' = [NoRun EXCEPT !.kind = IF attempt THEN "miss" ELSE "forced"]
  /\ UNCHANGED <<env, store_vars, io_vars, config_vars, other_vars>>

\* The hook reads its next parameter.
HookRead ==
  /\ pc = "hook"
  /\ cur.todo # <<>>
  /\ local_env' = [local_env EXCEPT !.used = get_value(@, Head(cur.todo))]
  /\ cur' = [cur EXCEPT !.todo = Tail(@)]
  /\ UNCHANGED <<env, store_vars, meta_vars, io_vars, config_vars, other_vars, pc, last>>

\* The hook raises: JPath.run's finally unlocks, the exception aborts the run.
HookRaise ==
  /\ pc = "hook"
  /\ pc' = "idle"
  /\ local_env' = [local_env EXCEPT !.locked = unlock(@, root)]
  /\ cur' = Idle
  /\ last' = [last EXCEPT !.kind = "hook_raised"]
  /\ UNCHANGED <<env, store_vars, meta_vars, io_vars, config_vars, other_vars>>

\* The hook returns: JPath.run's finally unlocks, then Journey._run saves the
\* result unless disable_saving_and_loading.
HookReturn(sql, fail) ==
  /\ pc = "hook"
  /\ cur.todo = <<>>
  /\ sql \in hook_sql
  /\ LET unlocked == [local_env EXCEPT !.locked = unlock(@, root)]
         result == hook_result(sql)
         sv == save_path_results(unlocked, PathName, result, fail)
     IN
     /\ pc' = "idle"
     /\ local_env' = unlocked
     /\ cur' = Idle
     /\ UNCHANGED <<env, WRITERS, READERS, config_vars, other_vars>>
     /\ IF cur.disable
          THEN /\ fail = "none"
               /\ last' = [last EXCEPT !.kind = "ran", !.result = result]
               /\ UNCHANGED <<store_vars, meta_vars, RESOLVED_WRITERS, fs>>
          ELSE /\ can_fail(unlocked, PathName, result, fail)
               /\ paths.save_datetime => Cardinality(dbResult) < MaxStampRows
               /\ dbPath' = sv.dbPath
               /\ dbPathVersion' = sv.dbPathVersion
               /\ dbResult' = sv.dbResult
               /\ now' = sv.now
               /\ db_current_path_versions' = sv.versions
               /\ db_current_path_env_schemas' = sv.env_schemas
               /\ db_current_path_file_schemas' = sv.file_schemas
               /\ RESOLVED_WRITERS' = sv.resolved
               /\ fs' = sv.fs
               /\ last' = [last EXCEPT
                             !.kind = IF sv.ok THEN "saved" ELSE "save_failed",
                             !.result = result,
                             !.updated = sv.updated]

Next ==
  \/ \E k \in Leaves, v \in XVals \cup YVals : SetParam(k, v)
  \/ NewJourney
  \/ \E force \in {0, 1}, disable \in BOOLEAN : Run(force, disable)
  \/ HookRead
  \/ HookRaise
  \/ \E sql \in SqlVals, fail \in SaveFailures : HookReturn(sql, fail)

Spec == Init /\ [][Next]_vars

(* ------------------------------------------------------------ properties *)
\* A step that is a run which attempts the load (force_run_to_depth = 0 and
\* saving and loading enabled), and a step in which the hook returns and
\* Journey._run saves.
IsLoad == Run(0, FALSE)
IsSave == /\ ~cur.disable
          /\ \E sql \in SqlVals, fail \in SaveFailures : HookReturn(sql, fail)
Idempotent == ~paths.save_datetime

\* The projection the finished run persisted, and the idempotent rows.
env_sql_of(lenv) == get_sql_data(lenv, FALSE)
NullRows(results) == {r \in results : r.created_at = Null}
VersionNums == {v.version : v \in dbPathVersion}

\* C1: with force_run_to_depth = 0 and saving enabled, the hook of an idempotent
\* path executes at most once per fingerprint: a run whose load was attempted
\* never executes the hook and saves under a projection for which a Result row
\* is already stored.
C1_AtMostOncePerFingerprint ==
  [][ (IsSave /\ Idempotent /\ last.kind = "miss" /\ last'.kind = "saved")
        => ~ \E r \in NullRows(dbResult) :
               /\ r.path_name = PathName
               /\ r.environment = env_sql_of(local_env') ]_vars

\* C2: a successful save of an idempotent path followed by a load with the same
\* parameter values returns a PathResult with the saved sql and file entries.
C2_SaveLoadRoundTrip ==
  [][ (IsLoad /\ Idempotent /\ last.kind = "saved" /\ env = local_env.value)
        => (last'.kind = "hit" /\ last'.result = last.result) ]_vars

\* The leaves the hook reads for the given values.
leaves_read(value) ==
  {k \in Leaves : \E i \in 1..Len(hook_reads(value)) : hook_reads(value)[i] = k}

\* C3: the persisted environment holds exactly the parameters read in the run,
\* under dotted keys, and a run that differs from the saved one only in unread
\* parameters hits the row that save wrote.
C3_UsedProjectionOnly ==
  [][ /\ (IsSave /\ last'.kind = "saved")
         => \E r \in dbResult' :
              /\ r.path_version_num = dbPath'[PathName]
              /\ r.environment =
                   [k \in leaves_read(local_env.value) |-> local_env.value[k]]
      /\ (IsLoad /\ Idempotent /\ last.kind = "saved" /\ env # local_env.value
            /\ \A k \in leaves_read(local_env.value) : env[k] = local_env.value[k])
         => (last'.kind = "hit" /\ last'.result = last.result) ]_vars

\* C4: a save_datetime path is never loaded from the cache, so every run
\* executes its hook, and every successful save adds exactly one Result row,
\* with created_at set.
C4_SaveDatetimeAlwaysNewRow ==
  /\ [](paths.save_datetime => last.kind \notin {"hit", "load_raised"})
  /\ [][ (paths.save_datetime /\ IsLoad) => pc' = "hook" ]_vars
  /\ [][ (paths.save_datetime /\ IsSave /\ last'.kind = "saved")
           => /\ dbResult \subseteq dbResult'
              /\ Cardinality(dbResult') = Cardinality(dbResult) + 1
              /\ \A r \in dbResult' \ dbResult : r.created_at # Null ]_vars
C4_Witness ==
  /\ paths.save_datetime
  /\ last.kind = "saved"
  /\ \E r1, r2 \in dbResult : /\ r1 # r2
                               /\ r1.environment = r2.environment
                               /\ r1.path_version_num = r2.path_version_num

\* C5: at most one Result row with created_at NULL per (name, version,
\* environment); a save under an existing key updates the sql and file_path of
\* that row and inserts nothing.
C5_UpsertOneRowPerKey ==
  /\ [](\A r1, r2 \in NullRows(dbResult) :
          (/\ r1.path_name = r2.path_name
           /\ r1.path_version_num = r2.path_version_num
           /\ r1.environment = r2.environment) => r1 = r2)
  /\ [][ (Idempotent /\ IsSave /\ last'.kind = "saved")
           => LET key == env_sql_of(local_env')
                  old == {r \in NullRows(dbResult) :
                            /\ r.path_name = PathName
                            /\ r.path_version_num = dbPath'[PathName]
                            /\ r.environment = key}
              IN  old # {}
                    => /\ last'.updated
                       /\ dbResult' =
                            (dbResult \ old) \cup
                            {[r EXCEPT !.data = last'.result.sql,
                                       !.file_path = <<PathName, get_filename(key)>>]
                               : r \in old} ]_vars
C5_Witness ==
  /\ Idempotent
  /\ last.kind = "saved"
  /\ last.updated
  /\ \E r \in dbResult : /\ r.environment = env_sql_of(local_env)
                         /\ r.path_version_num = dbPath[PathName]
                         /\ r.data = last.result.sql

\* C6: no two PathVersion rows of a name share (env_schema, file_schema).
C6_VersionUniquePerSchema ==
  \A v1, v2 \in dbPathVersion :
    (/\ v1.name = v2.name
     /\ v1.env_schema = v2.env_schema
     /\ v1.file_schema = v2.file_schema) => v1 = v2
C6_Witness ==
  /\ Cardinality(dbPathVersion) >= 2
  /\ last.kind = "saved"
  /\ dbPath[PathName] < Max(VersionNums)

\* C7: after a successful save Path.current_version is the version of the
\* PathVersion with the saved (env_schema, file_schema), also when a higher
\* version exists; a load hit comes from a Result row under
\* Path.current_version, never from a row of another version.
C7_CurrentVersionIsLastWritten ==
  /\ [][ (IsSave /\ last'.kind = "saved")
           => LET key == env_sql_of(local_env')
                  fsch == to_file(last'.result, <<PathName, get_filename(key)>>,
                                  RESOLVED_WRITERS, fs).file_schema
              IN \E v \in dbPathVersion' :
                   /\ v.name = PathName
                   /\ v.env_schema = get_sql_schema(key)
                   /\ v.file_schema = fsch
                   /\ dbPath'[PathName] = v.version ]_vars
  /\ [][ (IsLoad /\ last'.kind = "hit")
           => \E r \in NullRows(dbResult) :
                /\ r.path_name = PathName
                /\ r.path_version_num = dbPath[PathName]
                /\ r.data = last'.result.sql
                /\ \A k \in DOMAIN r.environment : r.environment[k] = env[k] ]_vars

\* C8: a save with a new (env_schema, file_schema) inserts the PathVersion
\* numbered highest + 1 (0 for the first) and makes it current; PathVersion
\* rows are never modified or removed; the versions of a name are 0..n-1.
C8_VersionsContiguous ==
  /\ [](VersionNums = 0 .. (Cardinality(dbPathVersion) - 1))
  /\ [][ dbPathVersion \subseteq dbPathVersion' ]_vars
  /\ [][ (IsSave /\ last'.kind = "saved" /\ dbPathVersion' # dbPathVersion)
           => \E v \in dbPathVersion' \ dbPathVersion :
                /\ dbPathVersion' = dbPathVersion \cup {v}
                /\ v.version = IF dbPathVersion = {} THEN 0 ELSE Max(VersionNums) + 1
                /\ dbPath'[PathName] = v.version ]_vars
C8_Witness ==
  /\ last.kind = "saved"
  /\ Cardinality(dbPathVersion) >= 3
  /\ dbPath[PathName] = 2

\* C9: a save that fails leaves the store with exactly the rows it held before.
C9_SaveAllOrNothing ==
  [][ (IsSave /\ last'.kind = "save_failed")
        => UNCHANGED <<dbPath, dbPathVersion, dbResult>> ]_vars

\* C10: while the hook runs the environment and all its descendants are
\* locked; when JPath.run has exited, by return or by exception, all of them
\* are unlocked.
C10_LockedExactlyDuringHook ==
  /\ pc = "hook" => \A n \in Nodes : local_env.locked[n]
  /\ pc = "idle" => \A n \in Nodes : ~local_env.locked[n]
C10_Witness ==
  /\ pc = "idle"
  /\ last.kind = "hook_raised"
  /\ \E n \in Nodes : local_env.used[n]
  /\ \A n \in Nodes : ~local_env.locked[n]

(***************************************************************************)
(* The parameter API (jmaps.journey.param) driven directly: one tree       *)
(* JDict{ x, d: JDict{ y }, b: Buffer(fn, n) } and the calls a user or the   *)
(* engine makes on it.                                                     *)
(***************************************************************************)
\* The Journey side at rest, for the specifications that do not run paths.
JourneyIdle ==
  /\ env = [k \in Leaves |-> IntV(1)]
  /\ paths = [save_datetime |-> FALSE, has_file |-> FALSE]
  /\ cache_db_meta = FALSE
  /\ db_current_path_versions = <<>>
  /\ db_current_path_env_schemas = <<>>
  /\ db_current_path_file_schemas = <<>>
  /\ dbPath = <<>> /\ dbPathVersion = {} /\ dbResult = {} /\ now = 1
  /\ WRITERS = [t \in {"Base"} |-> "write_base"]
  /\ RESOLVED_WRITERS = [t \in {"Base"} |-> "write_base"]
  /\ READERS = [t \in {"Base"} |-> "read_base"]
  /\ fs = <<>>
  /\ pc = "idle"
  /\ local_env = [value |-> env, used |-> NoUsage, locked |-> NoUsage]
  /\ cur = Idle
  /\ last = NoRun

\* The JDict that holds leaf k, and the nodes read on the way to it from the
\* root (env["d"] is JDict.__getitem__, which marks d used).
container(k) == IF k = "d.y" THEN "d" ELSE root
access(t, k) == IF k = "d.y" THEN [t EXCEPT !.used = get_value(@, "d")] ELSE t

\* JDict.__setitem__(key, value) on the container of k, reached from the root.
\* The stored JValue has no dtype, so an accepted assignment stores
\* wrap_jparam(value): a new node, unused and unlocked.
setitem(t, k, v) ==
  LET a == access(t, k) IN
  IF a.locked[container(k)]
    THEN [a EXCEPT !.err = "AttributeError"]
    ELSE [a EXCEPT !.value[k] = v, !.used[k] = FALSE, !.locked[k] = FALSE,
                   !.err = ""]

\* JDict.__setattr__(key, value): BaseModel.__setattr__ raises ValueError for
\* a name that is no field, then the same check and assignment.
setattr(t, k, v) ==
  LET a == access(t, k) IN
  IF a.locked[container(k)]
    THEN [a EXCEPT !.err = "AttributeError"]
    ELSE [a EXCEPT !.value[k] = v, !.used[k] = FALSE, !.locked[k] = FALSE,
                   !.err = ""]

\* JDict.replace(other) called on node c with a mapping that gives leaf k the
\* value v: self.data.update(other.data) stores the nodes of wrap_jparam(other)
\* (for c = root and k = "d.y" the whole JDict d is replaced by a new one).
replace(t, c, k, v) ==
  LET a == IF c = root THEN t ELSE access(t, k)
      fresh == IF c = root /\ k = "d.y" THEN {"d", "d.y"} ELSE {k}
  IN
  [a EXCEPT !.value[k] = v,
            !.used = [n \in Nodes |-> IF n \in fresh THEN FALSE ELSE a.used[n]],
            !.locked = [n \in Nodes |-> IF n \in fresh THEN FALSE ELSE a.locked[n]],
            !.err = ""]

\* ResetCondition and the functions a Buffer may wrap: the result for argument
\* n; Null stands for a function returning None.
ResetConditions == {"NEVER", "ON_RUN", "ON_RUN_IF_PARENT_PATH"}
Funs == {"n", "none", "none_at_1"}
BufArgs == {1, 2}
call(fn, n) ==
  CASE fn = "n" -> n
    [] fn = "none" -> Null
    [] fn = "none_at_1" -> IF n = 1 THEN Null ELSE n

\* Function calls a Buffer may make before the model stops evaluating it.
MaxCalls == 3

\* Buffer.get_value: used is set, and _get_value evaluates var on the
\* arguments' values when self.value is None.
buffer_get_value(b) ==
  IF b.value = Null
    THEN [b EXCEPT !.used = TRUE, !.arg_used = TRUE,
                   !.value = call(b.fn, b.arg),
                   !.calls = @ + 1, !.fresh = FALSE,
                   !.ret = call(b.fn, b.arg)]
    ELSE [b EXCEPT !.used = TRUE, !.ret = b.value]

\* Buffer._init_run
fires(reset_condition, is_parent_path) ==
  \/ reset_condition = "ON_RUN"
  \/ is_parent_path /\ reset_condition = "ON_RUN_IF_PARENT_PATH"
buffer_init_run(b, is_parent_path) ==
  IF fires(b.reset_condition, is_parent_path)
    THEN [b EXCEPT !.value = Null, !.fresh = TRUE]
    ELSE b

ParamInit ==
  /\ JourneyIdle
  /\ ptree = [value |-> [k \in Leaves |-> IntV(1)], used |-> NoUsage,
              locked |-> NoUsage, err |-> ""]
  /\ \E fn \in Funs, rc \in ResetConditions :
       buf = [fn |-> fn, reset_condition |-> rc, arg |-> 1, arg_used |-> FALSE,
              value |-> Null, used |-> FALSE, locked |-> FALSE,
              calls |-> 0, fresh |-> TRUE, ret |-> Null, err |-> ""]
  /\ reg = <<>> /\ gstat = <<>> /\ heap = <<>> /\ stack = <<>>

param_frame == <<journey_vars, graph_vars, tree_vars>>

\* env.lock() / env.unlock() on the root: the Buffer is one of its children.
PLock ==
  /\ ptree' = [ptree EXCEPT !.locked = lock(@, root), !.err = ""]
  /\ buf' = [buf EXCEPT !.locked = TRUE, !.err = ""]
  /\ UNCHANGED param_frame
PUnlock ==
  /\ ptree' = [ptree EXCEPT !.locked = unlock(@, root), !.err = ""]
  /\ buf' = [buf EXCEPT !.locked = FALSE, !.err = ""]
  /\ UNCHANGED param_frame

\* env["x"], env["d"]["y"]: the public read.
PRead(k) ==
  /\ ptree' = [access(ptree, k) EXCEPT !.used = get_value(@, k), !.err = ""]
  /\ UNCHANGED <<buf, param_frame>>

\* env["x"] = v, env["d"]["y"] = v
PSetItem(k, v) ==
  /\ v \in ValsOf(k)
  /\ ptree' = setitem(ptree, k, v)
  /\ UNCHANGED <<buf, param_frame>>

\* env.x = v, env.d.y = v
PSetAttr(k, v) ==
  /\ v \in ValsOf(k)
  /\ ptree' = setattr(ptree, k, v)
  /\ UNCHANGED <<buf, param_frame>>

\* env.replace({"x": v}), env.replace({"d": {"y": v}}), env.d.replace({"y": v})
PReplace(c, k, v) ==
  /\ v \in ValsOf(k)
  /\ c \in {root, container(k)}
  /\ ptree' = replace(ptree, c, k, v)
  /\ UNCHANGED <<buf, param_frame>>

\* env["b"]: the Buffer is read.
PBufRead ==
  /\ buf.value = Null => buf.calls < MaxCalls
  /\ buf' = [buffer_get_value(buf) EXCEPT !.err = ""]
  /\ UNCHANGED <<ptree, param_frame>>

\* env.data["b"]["n"] = v: the Buffer is a JDict, its argument a JValue child.
PBufSetArg(v) ==
  /\ buf' = IF buf.locked
              THEN [buf EXCEPT !.err = "AttributeError"]
              ELSE [buf EXCEPT !.arg = v, !.arg_used = FALSE, !.err = ""]
  /\ UNCHANGED <<ptree, param_frame>>

\* env.init_run(is_parent_path): _init_run on every node; only the Buffer has one.
PInitRun(is_parent_path) ==
  /\ buf' = [buffer_init_run(buf, is_parent_path) EXCEPT !.err = ""]
  /\ ptree' = [ptree EXCEPT !.err = ""]
  /\ UNCHANGED param_frame

ParamNext ==
  \/ PLock
  \/ PUnlock
  \/ \E k \in Leaves : PRead(k)
  \/ \E k \in Leaves, v \in XVals \cup YVals : PSetItem(k, v)
  \/ \E k \in Leaves, v \in XVals \cup YVals : PSetAttr(k, v)
  \/ \E c \in {root, "d"}, k \in Leaves, v \in XVals \cup YVals : PReplace(c, k, v)
  \/ PBufRead
  \/ \E v \in BufArgs : PBufSetArg(v)
  \/ \E ip \in BOOLEAN : PInitRun(ip)

SpecParam == ParamInit /\ [][ParamNext]_vars

\* A user mutation of the tree: item assignment, attribute assignment, replace.
IsMutation ==
  \/ \E k \in Leaves, v \in XVals \cup YVals : PSetItem(k, v)
  \/ \E k \in Leaves, v \in XVals \cup YVals : PSetAttr(k, v)
  \/ \E c \in {root, "d"}, k \in Leaves, v \in XVals \cup YVals : PReplace(c, k, v)

\* C11: while the tree is locked every user mutation of a JDict (item
\* assignment, attribute assignment, replace) raises the locked-mutation error
\* and leaves the parameters' values unchanged, while a Buffer read still
\* writes its memo and init_run still clears it.
C11_LockedTreeRejectsMutation ==
  [][ /\ (IsMutation /\ \A n \in Nodes : ptree.locked[n])
           => (ptree'.err = "AttributeError" /\ ptree'.value = ptree.value)
      /\ (PBufRead /\ buf.locked /\ buf.value = Null)
           => buf'.value = call(buf.fn, buf.arg)
      /\ \A ip \in BOOLEAN :
           (PInitRun(ip) /\ buf.locked /\ fires(buf.reset_condition, ip))
             => buf'.value = Null ]_vars

\* C19: a Buffer whose reset condition is NEVER calls its function at most
\* once: every read after the first evaluation makes no call and returns the
\* value the previous read returned, whatever the function returned and
\* whatever happened to the arguments in between.
C19_NeverBufferEvaluatesOnce ==
  [][ (PBufRead /\ buf.reset_condition = "NEVER" /\ buf.calls >= 1)
        => (buf'.calls = buf.calls /\ buf'.ret = buf.ret) ]_vars

\* C20: init_run clears a Buffer's memo exactly when its reset condition fires
\* (ON_RUN always, ON_RUN_IF_PARENT_PATH only for the parent path, NEVER
\* never), and the next read calls the function if and only if the memo was
\* cleared since the last evaluation.
C20_InitRunClearsExactlyWhenFired ==
  [][ /\ \A ip \in BOOLEAN :
           PInitRun(ip) =>
             /\ fires(buf.reset_condition, ip) => (buf'.value = Null /\ buf'.fresh)
             /\ ~fires(buf.reset_condition, ip) =>
                  (buf'.value = buf.value /\ buf'.fresh = buf.fresh)
      /\ PBufRead => (buf'.calls = buf.calls + 1 <=> buf.fresh) ]_vars

(***************************************************************************)
(* The path registry of a Journey: Journey.paths and the operations that   *)
(* add paths, validate them and start a run.                               *)
(***************************************************************************)
Names == {"A", "B", "C"}
Order == <<"A", "B", "C">>
seq_of(S) == SelectSeq(Order, LAMBDA n : n \in S)
Range(q) == {q[i] : i \in DOMAIN q}

\* The JPath objects a user may hand over under one name: subpaths is a list,
\* batched_subpaths a set.
PathShapes ==
  [subpaths : {seq_of(S) : S \in SUBSET Names}, batched_subpaths : {{}, {"C"}}]
Registries ==
  UNION {[D -> PathShapes] : D \in SUBSET Names}

RECURSIVE circular_subpaths(_, _, _)
RECURSIVE circular_children(_, _, _, _)

\* The cycle only a path naming itself would give.
circular_subpaths_direct(r, path_name, paths_prior) ==
  IF path_name \in Range(r[path_name].subpaths)
    THEN <<path_name, path_name>>
    ELSE <<>>

\* Journey.circular_subpaths(path_name, paths_prior): <<>> or the chain that
\* closes a cycle. Every child receives its own copy of paths_prior.
circular_subpaths(r, path_name, paths_prior) ==
  IF path_name \in Range(paths_prior)
    THEN Append(paths_prior, path_name)
    ELSE circular_children(r, r[path_name].subpaths, 1, Append(paths_prior, path_name))

\* the for loop of circular_subpaths, from the i-th subpath on
circular_children(r, subpaths, i, paths_prior) ==
  IF i > Len(subpaths) THEN <<>>
  ELSE IF subpaths[i] \in DOMAIN r
         /\ circular_subpaths(r, subpaths[i], paths_prior) # <<>>
    THEN circular_subpaths(r, subpaths[i], paths_prior)
    ELSE circular_children(r, subpaths, i + 1, paths_prior)

\* Journey.validate_path(path_name, error=False, verbose=False)
validate_path(r, path_name) ==
  [missing_subpaths |-> SelectSeq(r[path_name].subpaths, LAMBDA n : n \notin DOMAIN r),
   missing_batched_subpaths |-> r[path_name].batched_subpaths \ DOMAIN r,
   circular_path |-> circular_subpaths(r, path_name, <<>>)]

\* Journey.validate_paths(error=True): TRUE when it returns, FALSE when it
\* raises ValueError.
validate_paths(r) ==
  \A path_name \in DOMAIN r :
    /\ validate_path(r, path_name).missing_subpaths = <<>>
    /\ validate_path(r, path_name).missing_batched_subpaths = {}
    /\ validate_path(r, path_name).circular_path = <<>>

GraphIdle == [op |-> "init", err |-> "", deferred |-> FALSE, started |-> FALSE]

\* Journey(paths=...): the constructor stores the paths it is given.
GraphInit ==
  /\ JourneyIdle
  /\ reg \in Registries
  /\ gstat = GraphIdle
  /\ ptree = <<>> /\ buf = <<>> /\ heap = <<>> /\ stack = <<>>

graph_frame == <<journey_vars, param_vars, tree_vars>>

\* Journey.update_path(path, validate): the path is stored, then validated.
UpdatePath(name, path, validate) ==
  /\ reg' = [n \in DOMAIN reg \cup {name} |-> IF n = name THEN path ELSE reg[n]]
  /\ gstat' = [op |-> "update_path",
               err |-> IF validate /\ ~validate_paths(reg') THEN "ValueError" ELSE "",
               deferred |-> gstat.deferred \/ ~validate,
               started |-> FALSE]
  /\ UNCHANGED graph_frame

\* Journey.update_paths(new_paths, validate): the loop calls self.add_path,
\* which Journey does not define.
UpdatePaths(new_paths, validate) ==
  /\ reg' = reg
  /\ gstat' = [op |-> "update_paths",
               err |-> IF new_paths # <<>> THEN "AttributeError"
                       ELSE IF validate /\ ~validate_paths(reg) THEN "ValueError"
                       ELSE "",
               deferred |-> gstat.deferred \/ (new_paths = <<>> /\ ~validate),
               started |-> FALSE]
  /\ UNCHANGED graph_frame

\* Journey.validate_paths(error=True) called by the user.
ValidatePaths ==
  /\ reg' = reg
  /\ gstat' = [op |-> "validate_paths",
               err |-> IF validate_paths(reg) THEN "" ELSE "ValueError",
               deferred |-> gstat.deferred,
               started |-> FALSE]
  /\ UNCHANGED graph_frame

\* Journey.validate_path(path_name, error=True): TRUE when it raises
\* ValueError (lines 250-268: the test is on the two lists of missing names).
validate_path_raises(r, path_name) ==
  \/ validate_path(r, path_name).missing_subpaths # <<>>
  \/ validate_path(r, path_name).missing_batched_subpaths # {}

\* Journey.validate_path(path_name, error=True) called by the user.
ValidatePath(path_name) ==
  /\ path_name \in DOMAIN reg
  /\ reg' = reg
  /\ gstat' = [op |-> "validate_path",
               err |-> IF validate_path_raises(reg, path_name) THEN "ValueError" ELSE "",
               deferred |-> gstat.deferred,
               started |-> FALSE]
  /\ UNCHANGED graph_frame

\* Journey.run(path_name, ...): only the name itself is tested before _run.
JRun(path_name) ==
  /\ reg' = reg
  /\ gstat' = [op |-> "run",
               err |-> IF path_name \in DOMAIN reg THEN "" ELSE "ValueError",
               deferred |-> gstat.deferred,
               started |-> path_name \in DOMAIN reg]
  /\ UNCHANGED graph_frame

GraphNext ==
  \/ \E name \in Names, path \in PathShapes, validate \in BOOLEAN :
       UpdatePath(name, path, validate)
  \/ \E new_paths \in {<<>>, <<"A">>}, validate \in BOOLEAN :
       UpdatePaths(new_paths, validate)
  \/ ValidatePaths
  \/ \E path_name \in Names : ValidatePath(path_name)
  \/ \E path_name \in Names : JRun(path_name)

SpecGraph == GraphInit /\ [][GraphNext]_vars

\* The names a path reaches by one or more subpath edges.
RECURSIVE reach(_, _, _)
reach(r, S, k) ==
  IF k = 0 THEN S
  ELSE reach(r, S \cup UNION {Range(r[n].subpaths) \cap DOMAIN r : n \in S}, k - 1)
Reaches(r, n) ==
  reach(r, Range(r[n].subpaths) \cap DOMAIN r, Cardinality(Names))
Acyclic(r) == \A n \in DOMAIN r : n \notin Reaches(r, n)
AllRegistered(r) ==
  \A n \in DOMAIN r :
    Range(r[n].subpaths) \cup r[n].batched_subpaths \subseteq DOMAIN r

\* C12: validate_paths returns without raising exactly when every name in
\* every registered path's subpaths and batched_subpaths is registered and no
\* path reaches itself along subpath edges; a path shared by two parents is
\* accepted.
C12_ValidateIffRegisteredAndAcyclic ==
  gstat.op = "validate_paths" =>
    /\ gstat.err = "" <=> (AllRegistered(reg) /\ Acyclic(reg))
    /\ gstat.err = "" => Acyclic(reg)
C12_Witness ==
  /\ gstat.op = "validate_paths" /\ gstat.err = ""
  /\ DOMAIN reg = Names
  /\ reg["A"].subpaths = <<"B", "C">>
  /\ reg["B"].subpaths = <<"C">>
  /\ reg["C"].batched_subpaths = {"C"}

\* The operations that add paths with validation not deferred.
IsValidatedAdd ==
  \/ \E name \in Names, path \in PathShapes : UpdatePath(name, path, TRUE)
  \/ \E new_paths \in {<<>>, <<"A">>} : UpdatePaths(new_paths, TRUE)

\* C13: every path-adding operation whose validation is not deferred raises
\* the validation error exactly when the registry it leaves has a missing
\* subpath or a cycle, and a run never starts on a registry that
\* validate_paths rejects unless some addition deferred its validation.
C13_NoRunOnUnvalidatedGraph ==
  [][ /\ IsValidatedAdd =>
           (gstat'.err = "ValueError" <=> ~validate_paths(reg'))
      /\ (gstat'.started /\ ~gstat'.deferred) => validate_paths(reg') ]_vars

(***************************************************************************)
(* A run over a tree of paths: P with the subpaths S and T, S with the      *)
(* subpath T.                                                              *)
(* heap holds the environments alive during the run (0 is Journey.env),     *)
(* stack the activations of Journey._run, reg the registered JPath objects  *)
(* and gstat the options and outcome of the run.                           *)
(* The environment is JDict{x, d: JDict{y}, b: InvisibleParam(Buffer)}:     *)
(* memo is the Buffer's value field and bused the used flag of b.          *)
(***************************************************************************)
TreeNames == {"P", "S", "T"}
tree_subpaths(name) ==
  CASE name = "P" -> <<"S", "T">>
    [] name = "S" -> <<"T">>
    [] OTHER -> <<>>

\* What a path's class answers to self.paths[path_name].get_batch(...):
\* NoMethod is a class without that method (JPath defines get_batches only),
\* Null a method returning None, a number n a method returning a JBatch of n
\* overlays.
MaxBatch == 2
NoMethod == -2
BatchHookValues == {NoMethod, Null} \cup (0 .. MaxBatch)
BatchHooks(name) ==
  CASE name = "P" -> BatchHookValues
    [] name = "S" -> {NoMethod, Null}
    [] OTHER -> {NoMethod}

\* The overlay of batch iteration j: JDict({"x": j}).
overlay_nodes == {"x"}
overlay_value(j) == IntV(j)

\* The reads of each path's hook, and the hooks that read env["b"].
tree_reads(name) ==
  CASE name = "P" -> <<"d", "d.y">>
    [] name = "S" -> <<"x">>
    [] OTHER -> <<"x">>
reads_buffer(name) == name \in {"P", "T"}
TreeReset == "ON_RUN_IF_PARENT_PATH"

\* model_copy(deep=True) building the same object instead of a new one.
copy_id_alias(src, n) == src

\* model_copy(deep=True): the environment of the n-th activation is a new
\* object with the contents of src.
copy_id(src, n) == n
model_copy(h, src, n) ==
  [o \in DOMAIN h \cup {copy_id(src, n)} |-> IF o = copy_id(src, n) THEN h[src] ELSE h[o]]

\* merge_usage taking the mirror's flags instead of the disjunction.
merge_usage_overwrite(used, mirror) == mirror

\* JParam.merge_usage on two trees of the same shape.
merge_usage(used, mirror) == [n \in Nodes |-> used[n] \/ mirror[n]]

\* The overlay's usage left in place.
overlay_keep(used, overlay) == used

\* batch_env.reset_usage(): the overlay's nodes are the sub-environment's nodes
\* (replace stores them by reference), so their used flags are cleared there.
overlay_reset(used, overlay) ==
  [n \in Nodes |-> IF n \in overlay THEN FALSE ELSE used[n]]

NoEnv == [value |-> [k \in Leaves |-> IntV(1)], used |-> NoUsage,
          locked |-> NoUsage, memo |-> Null, bused |-> FALSE]
NoFrame == [name |-> "P", obj |-> 1, force |-> 0, is_parent |-> TRUE,
            st |-> "enter", loaded |-> FALSE, result |-> NoResult,
            i |-> 1, j |-> 0, overlay |-> {}]
TreeIdle == [ev |-> "init", err |-> "", disable |-> FALSE, name |-> "", depth |-> 0]

Top == stack[Len(stack)]
\* The objects no activation and no Journey holds are dropped.
collect(h, frames) == [o \in {0} \cup {frames[n].obj : n \in DOMAIN frames} |-> h[o]]

TreeInit ==
  /\ JourneyIdle
  /\ reg \in {r \in [TreeNames -> [subpaths : {<<>>, <<"T">>, <<"S", "T">>},
                                   batched_subpaths : {{}},
                                   get_batch : BatchHookValues]] :
                \A n \in TreeNames : /\ r[n].subpaths = tree_subpaths(n)
                                      /\ r[n].get_batch \in BatchHooks(n)}
  /\ gstat = TreeIdle
  /\ heap = [o \in {0} |-> NoEnv]
  /\ stack = <<>>
  /\ ptree = <<>> /\ buf = <<>>

tree_frame == <<env, paths, cache_db_meta, now, io_vars, pc, local_env, cur, last, param_vars>>

\* An exception leaves Journey.run: every activation is abandoned.
abort(error) ==
  /\ stack' = <<>>
  /\ heap' = collect(heap, <<>>)
  /\ gstat' = [gstat EXCEPT !.ev = "raised", !.err = error,
                            !.name = Top.name, !.depth = Len(stack) - 1]

\* The user reads Journey.env["x"] or Journey.env["b"] between runs.
TUserRead(k) ==
  /\ stack = <<>>
  /\ heap' = [heap EXCEPT ![0].used = get_value(@, k)]
  /\ gstat' = [TreeIdle EXCEPT !.ev = "user"]
  /\ UNCHANGED <<reg, stack, store_vars, meta_vars, tree_frame>>
TUserBuffer ==
  /\ stack = <<>>
  /\ heap' = [heap EXCEPT ![0].bused = TRUE, ![0].memo = 1]
  /\ gstat' = [TreeIdle EXCEPT !.ev = "user"]
  /\ UNCHANGED <<reg, stack, store_vars, meta_vars, tree_frame>>

\* journey.update_path(path, validate=True) between runs with an object of
\* another class under the same name and with the same subpaths.
TUpdatePath(name, get_batch) ==
  /\ stack = <<>>
  /\ get_batch \in BatchHooks(name)
  /\ reg' = [reg EXCEPT ![name].get_batch = get_batch]
  /\ gstat' = [TreeIdle EXCEPT !.ev = "user"]
  /\ UNCHANGED <<heap, stack, store_vars, meta_vars, tree_frame>>

\* Journey.run(path_name, PathOptions(force_run_to_depth, disable_saving_and_loading))
\* up to the call of _run on the deep copy.
TStart(path_name, force, disable) ==
  /\ stack = <<>>
  /\ heap' = model_copy(heap, 0, 1)
  /\ stack' = <<[NoFrame EXCEPT !.name = path_name, !.obj = copy_id(0, 1),
                                !.force = force]>>
  /\ gstat' = [ev |-> "start", err |-> "", disable |-> disable,
               name |-> path_name, depth |-> 0]
  /\ UNCHANGED <<reg, store_vars, meta_vars, tree_frame>>

\* Journey._run lines 345-360: init_run, reset_usage, the load attempt and the
\* early return of a subpath whose load hit.
TEnter ==
  /\ stack # <<>>
  /\ Top.st = "enter"
  /\ LET f == Top
         e0 == heap[f.obj]
         e1 == [e0 EXCEPT !.memo = IF fires(TreeReset, f.is_parent) THEN Null ELSE @,
                          !.used = reset_usage(@, root),
                          !.bused = FALSE]
         attempt == f.force = 0 /\ ~gstat.disable
         ld == load_path_results(e1, f.name)
     IN
     /\ IF attempt
          THEN /\ db_current_path_versions' = ld.versions
               /\ db_current_path_env_schemas' = ld.env_schemas
               /\ db_current_path_file_schemas' = ld.file_schemas
          ELSE UNCHANGED meta_vars
     /\ IF attempt /\ ld.outcome = "raise"
          THEN abort(ld.error)
        ELSE
          /\ heap' = [heap EXCEPT ![f.obj] =
                        [e1 EXCEPT !.used = IF attempt THEN ld.used ELSE @]]
          /\ IF attempt /\ ld.outcome = "hit"
               THEN /\ stack' = [stack EXCEPT ![Len(stack)] =
                                   [f EXCEPT !.st = IF f.is_parent THEN "subpaths" ELSE "done",
                                             !.loaded = TRUE, !.result = ld.result]]
                    /\ gstat' = [gstat EXCEPT !.ev = "hit", !.name = f.name,
                                              !.depth = Len(stack) - 1]
               ELSE /\ stack' = [stack EXCEPT ![Len(stack)] = [f EXCEPT !.st = "subpaths"]]
                    /\ gstat' = [gstat EXCEPT !.ev = IF attempt THEN "miss" ELSE "forced",
                                              !.name = f.name, !.depth = Len(stack) - 1]
  /\ UNCHANGED <<reg, store_vars, tree_frame>>

\* The loop over the subpaths taken from the end of the list.
subpath_at_reversed(subpaths, i) == subpaths[Len(subpaths) + 1 - i]

\* for subpath_name in self.paths[path_name].subpaths: the i-th turn.
subpath_at(subpaths, i) == subpaths[i]

\* One turn of the loops of Journey.run_subpaths: the next subpath, or the
\* next overlay of its batch, is started on its own copy of the environment.
TSub ==
  /\ stack # <<>>
  /\ Top.st = "subpaths"
  /\ LET f == Top
         subpaths == reg[f.name].subpaths
         get_batch == reg[f.name].get_batch
         n == Len(stack) + 1
         child == [NoFrame EXCEPT !.name = subpath_at(subpaths, f.i), !.obj = copy_id(f.obj, n),
                                  !.force = IF f.force > 0 THEN f.force - 1 ELSE 0,
                                  !.is_parent = FALSE]
         copied == model_copy(heap, f.obj, n)
     IN
     IF f.i > Len(subpaths)
       THEN /\ stack' = [stack EXCEPT ![Len(stack)] =
                           [f EXCEPT !.st = IF f.loaded THEN "done" ELSE "hook"]]
            /\ gstat' = [gstat EXCEPT !.ev = "subpaths_done", !.name = f.name,
                                      !.depth = Len(stack) - 1]
            /\ UNCHANGED heap
     ELSE IF get_batch = NoMethod
       THEN abort("AttributeError")
     ELSE IF get_batch = Null
       THEN /\ stack' = Append(stack, child)
            /\ heap' = copied
            /\ gstat' = [gstat EXCEPT !.ev = "sub", !.name = child.name, !.depth = Len(stack)]
     ELSE IF f.j >= get_batch
       THEN /\ stack' = [stack EXCEPT ![Len(stack)] = [f EXCEPT !.i = @ + 1, !.j = 0]]
            /\ gstat' = [gstat EXCEPT !.ev = "batch_done", !.name = f.name,
                                      !.depth = Len(stack) - 1]
            /\ UNCHANGED heap
     ELSE \* subpath_env.replace(batch_env)
          /\ stack' = Append(stack, [child EXCEPT !.overlay = overlay_nodes])
          /\ heap' = [copied EXCEPT
                        ![child.obj] =
                           [@ EXCEPT !.value["x"] = overlay_value(f.j + 1),
                                     !.used = overlay_reset(@, overlay_nodes),
                                     !.locked = overlay_reset(@, overlay_nodes)]]
          /\ gstat' = [gstat EXCEPT !.ev = "sub", !.name = child.name, !.depth = Len(stack)]
  /\ UNCHANGED <<reg, store_vars, meta_vars, tree_frame>>

\* Journey._run lines 367-374: JPath.run (lock, the hook, unlock) and the save.
THook(raise) ==
  /\ stack # <<>>
  /\ Top.st = "hook"
  /\ LET f == Top
         e == heap[f.obj]
         ran == [e EXCEPT !.used = ReadAll(@, tree_reads(f.name)),
                          !.bused = @ \/ reads_buffer(f.name),
                          !.memo = IF reads_buffer(f.name) /\ @ = Null THEN 1 ELSE @,
                          !.locked = unlock(lock(@, root), root)]
         result == hook_result(0)
         sv == save_path_results(ran, f.name, result, "none")
     IN
     IF raise
       THEN /\ abort("hook")
            /\ UNCHANGED <<store_vars, meta_vars>>
       ELSE /\ heap' = [heap EXCEPT ![f.obj] = ran]
            /\ stack' = [stack EXCEPT ![Len(stack)] =
                           [f EXCEPT !.st = "done", !.result = result]]
            /\ IF gstat.disable
                 THEN /\ gstat' = [gstat EXCEPT !.ev = "ran", !.name = f.name,
                                                !.depth = Len(stack) - 1]
                      /\ UNCHANGED <<store_vars, meta_vars>>
                 ELSE /\ gstat' = [gstat EXCEPT !.ev = "saved", !.name = f.name,
                                                !.depth = Len(stack) - 1]
                      /\ dbPath' = sv.dbPath
                      /\ dbPathVersion' = sv.dbPathVersion
                      /\ dbResult' = sv.dbResult
                      /\ db_current_path_versions' = sv.versions
                      /\ db_current_path_env_schemas' = sv.env_schemas
                      /\ db_current_path_file_schemas' = sv.file_schemas
  /\ UNCHANGED <<reg, tree_frame>>

\* _run returns: to Journey.run, or to run_subpaths, which merges the usage of
\* the subpath's environment into the caller's environment.
TReturn ==
  /\ stack # <<>>
  /\ Top.st = "done"
  /\ LET c == Top
         rest == SubSeq(stack, 1, Len(stack) - 1)
     IN
     IF rest = <<>>
       THEN /\ stack' = <<>>
            /\ heap' = collect(heap, <<>>)
            /\ gstat' = [gstat EXCEPT !.ev = "returned", !.name = c.name, !.depth = 0]
       ELSE LET p == rest[Len(rest)]
                sub_used == IF c.overlay # {}
                              THEN overlay_reset(heap[c.obj].used, c.overlay)
                              ELSE heap[c.obj].used
                merged == [heap EXCEPT
                             ![p.obj].used = merge_usage(@, sub_used),
                             ![p.obj].bused = @ \/ heap[c.obj].bused]
                caller == IF reg[p.name].get_batch = Null
                            THEN [p EXCEPT !.i = @ + 1]
                            ELSE [p EXCEPT !.j = @ + 1]
            IN
            /\ stack' = [rest EXCEPT ![Len(rest)] = caller]
            /\ heap' = collect(merged, stack')
            /\ gstat' = [gstat EXCEPT !.ev = "merged", !.name = c.name,
                                      !.depth = Len(rest)]
  /\ UNCHANGED <<reg, store_vars, meta_vars, tree_frame>>

TreeNext ==
  \/ TUserRead("x")
  \/ TUserBuffer
  \/ \E name \in TreeNames, get_batch \in BatchHookValues :
       TUpdatePath(name, get_batch)
  \/ \E path_name \in TreeNames, force \in 0 .. 2, disable \in BOOLEAN :
       TStart(path_name, force, disable)
  \/ TEnter
  \/ TSub
  \/ \E raise \in BOOLEAN : THook(raise)
  \/ TReturn

SpecTree == TreeInit /\ [][TreeNext]_vars

\* The activation that called the running one, and the steps of a run.
Caller == stack[Len(stack) - 1]
IsBatched(name) == reg[name].get_batch \in 0 .. MaxBatch
HookReturns == THook(FALSE)

\* C14: when P runs S as a batched subpath, merging the environment of a batch
\* iteration leaves the used flags of the overlay-written parameters in P's
\* environment as they were, in every iteration and for every batch size, and
\* the environment P then persists has no overlay-written key.
C14_OverlayNotUsedInParent ==
  [][ /\ (TReturn /\ Len(stack) > 1 /\ Top.overlay # {})
           => \A n \in Top.overlay :
                heap'[Caller.obj].used[n] = heap[Caller.obj].used[n]
      /\ (HookReturns /\ Top.name = "P" /\ IsBatched("P"))
           => /\ ~heap'[Top.obj].used["x"]
              /\ ~gstat.disable =>
                   \E r \in dbResult' :
                     /\ r.path_name = "P"
                     /\ r.environment = get_sql_data(heap'[Top.obj], FALSE)
                     /\ "x" \notin DOMAIN r.environment ]_vars
C14_Witness ==
  /\ gstat.ev = "saved" /\ gstat.name = "P"
  /\ reg["P"].get_batch = MaxBatch
  /\ \E r \in dbResult : r.path_name = "P" /\ DOMAIN r.environment = {"d.y"}
  /\ \E r \in dbResult : r.path_name = "S" /\ r.environment = [k \in {"x"} |-> IntV(MaxBatch)]

\* A load hit, the hook being entered, and a subpath (or overlay) still to run.
IsHit == TEnter /\ gstat'.ev = "hit"
HookCalled == \E raise \in BOOLEAN : THook(raise)
SubpathPending ==
  /\ Top.i <= Len(reg[Top.name].subpaths)
  /\ IsBatched(Top.name) => Top.j < reg[Top.name].get_batch

\* C15: a load hit for a path that is not the root makes _run return the
\* loaded result at once: no subpath, no hook, no save. A load hit for the
\* root still runs run_subpaths, which starts every subpath on its turn, but
\* the hook of a path whose load hit is never called and nothing is saved
\* for it.
C15_LoadHitSkipsHookAndSubpathsBelowRoot ==
  [][ /\ (IsHit /\ ~Top.is_parent)
           => /\ Len(stack') = Len(stack)
              /\ stack'[Len(stack)].st = "done"
              /\ stack'[Len(stack)].result = load_path_results(heap'[Top.obj], Top.name).result
              /\ UNCHANGED store_vars
      /\ (IsHit /\ Top.is_parent)
           => (stack'[1].st = "subpaths" /\ UNCHANGED store_vars)
      /\ (TSub /\ Top.loaded /\ SubpathPending)
           => /\ Len(stack') = Len(stack) + 1
              /\ stack'[Len(stack')].name = reg[Top.name].subpaths[Top.i]
      /\ HookCalled => ~Top.loaded ]_vars

\* The depth of the running activation (the root has depth 0), the
\* force_run_to_depth the run was started with, and a step of the run.
Depth == Len(stack) - 1
RootForce == stack[1].force
LoadAttempted == TEnter /\ gstat'.ev # "forced"
Raised == stack' = <<>> /\ gstat'.ev = "raised"
SubpathsDone == Top.i > Len(reg[Top.name].subpaths)

\* C16: with saving and loading enabled and force_run_to_depth = d, the path
\* at depth i attempts the load if and only if i >= d; a path at depth < d
\* runs its subpaths, then its hook, and saves, whatever the store holds; and
\* each subpath is handed max(0, d - 1).
C16_ForceRunToDepth ==
  [][ /\ (TEnter /\ ~gstat.disable)
           => (LoadAttempted <=> Depth >= RootForce)
      /\ (TSub /\ ~gstat.disable /\ Depth < RootForce)
           => /\ ~Raised
              /\ SubpathsDone => stack'[Len(stack)].st = "hook"
      /\ (HookReturns /\ ~gstat.disable /\ Depth < RootForce)
           => \E r \in dbResult' :
                /\ r.path_name = Top.name
                /\ r.environment = get_sql_data(heap'[Top.obj], FALSE)
      /\ (TSub /\ Len(stack') = Len(stack) + 1)
           => /\ stack'[Len(stack')].force >= 0
              /\ stack'[Len(stack')].force = Max({0, Top.force - 1}) ]_vars

\* C17: with disable_saving_and_loading = true no activation attempts the load
\* or is given a loaded result, every path reached runs its subpaths and then
\* its hook, and no step of the run changes the Path, PathVersion and Result
\* rows.
C17_DisableNeverLoadsOrSaves ==
  [][ (stack # <<>> /\ gstat.disable)
        => /\ UNCHANGED store_vars
           /\ ~LoadAttempted
           /\ stack' # <<>> => ~stack'[Len(stack')].loaded
           /\ TSub => /\ ~Raised
                      /\ SubpathsDone => stack'[Len(stack)].st = "hook" ]_vars

\* A step of Journey.run, and the environments held before a step.
IsRunStep ==
  \/ \E path_name \in TreeNames, force \in 0 .. 2, disable \in BOOLEAN :
       TStart(path_name, force, disable)
  \/ stack # <<>>
Held == {0} \cup {stack[n].obj : n \in DOMAIN stack}
Started == Len(stack') = Len(stack) + 1

\* C18: no step of a run, returning or raising, changes Journey.env (values,
\* used flags, lock state, Buffer memo); every activation of _run is started
\* on an environment object of its own whose contents are its caller's (with
\* the overlay written on top for a batch), and a return changes nothing of
\* the caller's environment but its used flags.
C18_RunWorksOnDeepCopies ==
  [][ /\ IsRunStep => heap'[0] = heap[0]
      /\ (IsRunStep /\ Started)
           => /\ stack'[Len(stack')].obj \notin Held
              /\ \A o \in Held : heap'[o] = heap[o]
              /\ LET src == IF stack = <<>> THEN heap[0] ELSE heap[Top.obj]
                     new == heap'[stack'[Len(stack')].obj]
                 IN /\ new.memo = src.memo /\ new.bused = src.bused
                    /\ \A k \in Nodes \ stack'[Len(stack')].overlay :
                         /\ new.used[k] = src.used[k]
                         /\ new.locked[k] = src.locked[k]
                    /\ \A k \in Leaves \ stack'[Len(stack')].overlay :
                         new.value[k] = src.value[k]
      /\ (TReturn /\ Len(stack) > 1)
           => /\ heap'[Caller.obj].value = heap[Caller.obj].value
              /\ heap'[Caller.obj].locked = heap[Caller.obj].locked
              /\ heap'[Caller.obj].memo = heap[Caller.obj].memo
              /\ \A o \in Held \ {Top.obj, Caller.obj} : heap'[o] = heap[o] ]_vars
C18_Witness ==
  /\ gstat.ev = "returned" /\ gstat.name = "P"
  /\ heap[0].used["x"] /\ ~heap[0].used["d"] /\ heap[0].memo = Null
  /\ \E r \in dbResult : r.path_name = "P" /\ DOMAIN r.environment = {"x", "d.y"}
  /\ \E r \in dbResult : r.path_name = "T"

\* C21: a read through the public accessor sets used on the node read and
\* changes the used flag of no other node: env["x"] and env["d"]["y"] mark
\* the nodes on their walk only, and a read of the Buffer marks the Buffer
\* and leaves the used flag of its argument as it was.
C21_ReadMarksOnlyTheNodeRead ==
  [][ /\ \A k \in Leaves :
           PRead(k) =>
             /\ \A n \in Range(param_path(k)) : ptree'.used[n]
             /\ \A n \in Nodes \ Range(param_path(k)) : ptree'.used[n] = ptree.used[n]
             /\ buf'.used = buf.used /\ buf'.arg_used = buf.arg_used
      /\ PBufRead =>
           /\ buf'.used
           /\ buf'.arg_used = buf.arg_used
           /\ ptree'.used = ptree.used ]_vars

(***************************************************************************)
(* Two parameter trees of the same shape, a and b (ptree.a, ptree.b), and   *)
(* the usage operations on them.                                           *)
(***************************************************************************)
Sides == {"a", "b"}
NoTree == [value |-> [k \in Leaves |-> IntV(1)], used |-> NoUsage]

MergeInit ==
  /\ JourneyIdle
  /\ \E va, vb \in EnvValues :
       ptree = [a |-> [NoTree EXCEPT !.value = va],
                b |-> [NoTree EXCEPT !.value = vb],
                op |-> <<"init">>]
  /\ buf = <<>>
  /\ reg = <<>> /\ gstat = <<>> /\ heap = <<>> /\ stack = <<>>

\* t["x"], t["d"]["y"]
MRead(t, k) ==
  /\ ptree' = [ptree EXCEPT ![t].used = ReadAll(@, param_path(k)), !.op = <<"read">>]
  /\ UNCHANGED <<buf, param_frame>>

\* t.reset_usage()
MResetUsage(t) ==
  /\ ptree' = [ptree EXCEPT ![t].used = reset_usage(@, root), !.op = <<"reset_usage">>]
  /\ UNCHANGED <<buf, param_frame>>

\* t.merge_usage(m), also with m the tree t itself
MMerge(t, m) ==
  /\ ptree' = [ptree EXCEPT ![t].used = merge_usage(@, ptree[m].used),
                            !.op = <<"merge_usage", t, m>>]
  /\ UNCHANGED <<buf, param_frame>>

MergeNext ==
  \/ \E t \in Sides, k \in Leaves : MRead(t, k)
  \/ \E t \in Sides : MResetUsage(t)
  \/ \E t \in Sides, m \in Sides : MMerge(t, m)

SpecMerge == MergeInit /\ [][MergeNext]_vars

\* C22: a.merge_usage(b) sets each used flag of a to (a.used or b.used) of the
\* corresponding nodes, leaves b and every value unchanged, turns no used flag
\* of a from true to false, and is idempotent: merging b again, or merging a
\* tree into itself, changes no flag.
C22_MergeUsageIsOrAndIdempotent ==
  [][ /\ MMerge("a", "b") =>
           /\ \A n \in Nodes : ptree'.a.used[n] = (ptree.a.used[n] \/ ptree.b.used[n])
           /\ \A n \in Nodes : ptree.a.used[n] => ptree'.a.used[n]
           /\ ptree'.b = ptree.b
           /\ ptree'.a.value = ptree.a.value
           /\ merge_usage(ptree'.a.used, ptree'.b.used) = ptree'.a.used
      /\ \A t \in Sides : MMerge(t, t) => ptree'[t] = ptree[t] ]_vars
C22_Witness ==
  /\ ptree.op = <<"merge_usage", "a", "b">>
  /\ ptree.a.used["x"] /\ ~ptree.b.used["x"]
  /\ ptree.a.used["d.y"] /\ ptree.b.used["d.y"]
  /\ ptree.a.value # ptree.b.value

\* C23: every call of io.write, the calls after the resolution was memoized
\* included, returns a type under which a writer is registered, so every file
\* schema a save stored names a type for which io.read finds the reader.
C23_WriteReturnsRegisteredType ==
  \A v \in dbPathVersion :
    v.file_schema # None =>
      /\ v.file_schema["f"] \in DOMAIN WRITERS
      /\ v.file_schema["f"] \in DOMAIN READERS

(***************************************************************************)
(* A JBatch: heap maps the batch ids to the stored environments, gstat      *)
(* holds param_schema, the schema of the first run stored (history) and the *)
(* outcome of the latest call.                                             *)
(***************************************************************************)
BatchIds == {"r1", "r2", "r3"}
\* The environments handed to a batch: JDict({"x": v}) or JDict({"x": v, "d": {"y": w}}).
BatchEnvs ==
  UNION {[K -> {IntV(1), IntV(2), StrV(1)}] : K \in {{"x"}, {"x", "d.y"}}}
\* get_sql_schema(env.get_sql_data(show_unused=True, show_invisible=True))
batch_schema(e) == get_sql_schema([k \in DOMAIN e |-> cast_sql_type(e[k])])
BatchSchemas == {batch_schema(e) : e \in BatchEnvs}

\* validate_run reporting no difference for any environment.
validate_run_lenient(param_schema, e) == ""

\* JBatch.validate_run(env, error=True): DeepDiff of the two schemas.
validate_run(param_schema, e) ==
  IF param_schema # batch_schema(e) THEN "ValueError" ELSE ""

\* JBatch.add_run on the batch b = [runs, param_schema, first, err].
add_run(b, batch_id, e) ==
  IF b.param_schema = None
    THEN [b EXCEPT !.param_schema = batch_schema(e), !.first = batch_schema(e),
                   !.runs = (batch_id :> e) @@ @, !.err = ""]
  ELSE IF validate_run(b.param_schema, e) # ""
    THEN [b EXCEPT !.err = validate_run(b.param_schema, e)]
    ELSE [b EXCEPT !.runs = (batch_id :> e) @@ @, !.err = "",
                   !.first = IF b.runs = <<>> THEN batch_schema(e) ELSE @]

RECURSIVE add_runs(_, _)
\* the loop of JBatch.__init__ over runs.items(), up to the first raise
add_runs(b, runs) ==
  IF runs = <<>> \/ b.err # "" THEN b
  ELSE add_runs(add_run(b, Head(runs)[1], Head(runs)[2]), Tail(runs))

NoBatch == [runs |-> <<>>, param_schema |-> None, first |-> None, err |-> ""]
Batch == [runs |-> heap, param_schema |-> gstat.param_schema,
          first |-> gstat.first, err |-> ""]

BatchInit ==
  /\ JourneyIdle
  /\ heap = <<>>
  /\ gstat = [param_schema |-> None, first |-> None, err |-> "", op |-> "init"]
  /\ ptree = <<>> /\ buf = <<>> /\ reg = <<>> /\ stack = <<>>

batch_frame == <<journey_vars, param_vars, reg, stack>>

\* batch = JBatch(runs, param_schema): the name is bound only when the
\* constructor returns.
BNew(runs, param_schema) ==
  /\ LET b == add_runs([NoBatch EXCEPT !.param_schema = param_schema], runs) IN
     IF b.err # ""
       THEN /\ gstat' = [gstat EXCEPT !.err = b.err, !.op = "JBatch"]
            /\ UNCHANGED heap
       ELSE /\ heap' = b.runs
            /\ gstat' = [param_schema |-> b.param_schema, first |-> b.first,
                         err |-> "", op |-> "JBatch"]
  /\ UNCHANGED batch_frame

\* batch.add_run(batch_id, env)
BAddRun(batch_id, e) ==
  /\ LET b == add_run(Batch, batch_id, e) IN
     /\ heap' = b.runs
     /\ gstat' = [param_schema |-> b.param_schema, first |-> b.first,
                  err |-> b.err, op |-> "add_run"]
  /\ UNCHANGED batch_frame

BatchNext ==
  \/ \E e1, e2 \in BatchEnvs, n \in 0 .. 2, param_schema \in {None} \cup BatchSchemas :
       BNew(SubSeq(<<<<"r1", e1>>, <<"r2", e2>>>>, 1, n), param_schema)
  \/ \E batch_id \in BatchIds, e \in BatchEnvs : BAddRun(batch_id, e)

SpecBatch == BatchInit /\ [][BatchNext]_vars

IsAddRun == \E batch_id \in BatchIds, e \in BatchEnvs : BAddRun(batch_id, e)

\* C24: every run a JBatch holds, stored by the constructor or by add_run, has
\* the schema of the first run stored; an add_run with another schema raises
\* and leaves the entries and param_schema as they were.
C24_BatchRunsShareTheFirstSchema ==
  [][ /\ \A batch_id \in DOMAIN heap' : batch_schema(heap'[batch_id]) = gstat'.first
      /\ \A batch_id \in BatchIds, e \in BatchEnvs :
           (BAddRun(batch_id, e) /\ heap # <<>> /\ batch_schema(e) # gstat.first)
             => /\ gstat'.err = "ValueError"
                /\ heap' = heap
                /\ gstat'.param_schema = gstat.param_schema ]_vars
C24_Witness ==
  /\ gstat.op = "add_run" /\ gstat.err = "ValueError"
  /\ DOMAIN heap = {"r1", "r3"}
  /\ gstat.first = [k \in {"x", "d.y"} |-> "int"]

(***************************************************************************)
(* A path whose environment is JDict{x: XBuffer(f, n), d: JDict{y}}:        *)
(* heap[0] is Journey.env with the XBuffer's argument n (arg) and its value *)
(* field (memo); gstat records the latest run.                             *)
(***************************************************************************)
XArgs == {1, 2, 3}
\* The function under the XBuffer: f(n) = n % 2.
xfun(n) == n % 2

\* Buffer._get_value without its side effects: the memoized value or, when
\* none is memoized, the function's result on the argument.
xbuffer_value(e) == IF e.memo = Null THEN xfun(e.arg) ELSE e.memo

\* The argument projected in place of the output.
xbuffer_inputs(e) == cast_sql_type(IntV(e.arg))

\* XBuffer.get_sql_data: cast_sql_type(self._get_value())
xbuffer_get_sql_data(e) == cast_sql_type(IntV(xbuffer_value(e)))

\* The environment as JDict.get_sql_data and load_path_results see it: the
\* child x stands for its projection.
sql_view(e) ==
  [value |-> [e.value EXCEPT !["x"] = xbuffer_get_sql_data(e)],
   used |-> e.used, locked |-> e.locked]

\* Buffer._get_value on the environment's XBuffer.
xbuffer_read(e) ==
  [e EXCEPT !.used = get_value(@, "x"),
            !.bused = IF e.memo = Null THEN TRUE ELSE @,
            !.memo = xbuffer_value(e)]

NoXRun == [ev |-> "init", env_sql |-> <<>>, arg |-> 0, out |-> IntV(Null)]
XEnv == [value |-> [k \in Leaves |-> IntV(1)], used |-> NoUsage, locked |-> NoUsage,
         memo |-> Null, bused |-> FALSE, arg |-> 1]

XInit ==
  /\ JourneyIdle
  /\ heap = [o \in {0} |-> XEnv]
  /\ gstat = NoXRun
  /\ stack = <<>>
  /\ ptree = <<>> /\ buf = <<>> /\ reg = <<>>

x_frame == <<env, paths, cache_db_meta, now, io_vars, pc, local_env, cur, last,
             param_vars, reg, stack>>

\* Journey.env.data["x"]["n"] = n
XSetArg(n) ==
  /\ heap' = [heap EXCEPT ![0].arg = n]
  /\ UNCHANGED <<gstat, store_vars, meta_vars, x_frame>>

\* Journey.env["d"]["y"] = v
XSetY(v) ==
  /\ heap' = [heap EXCEPT ![0] = [access(@, "d.y") EXCEPT !.value["d.y"] = v]]
  /\ UNCHANGED <<gstat, store_vars, meta_vars, x_frame>>

\* Journey.env["x"]: the user evaluates the XBuffer of the root environment.
XUserRead ==
  /\ heap' = [heap EXCEPT ![0] = xbuffer_read(@)]
  /\ UNCHANGED <<gstat, store_vars, meta_vars, x_frame>>

\* journey.run("X", PathOptions()) for a path without subpaths whose hook
\* reads env["x"] and env["d"]["y"]: the whole of Journey.run.
XRun ==
  /\ LET copy == [heap[0] EXCEPT !.used = NoUsage, !.bused = FALSE]
         ld == load_path_results(sql_view(copy), "X")
         missed == [copy EXCEPT !.used = ld.used]
         ran == [xbuffer_read(missed) EXCEPT
                   !.used = ReadAll(get_value(missed.used, "x"), <<"d", "d.y">>)]
         sv == save_path_results(sql_view(ran), "X", hook_result(0), "none")
         matched == CHOOSE v \in version_rows("X", ld.version) : TRUE
     IN
     IF ld.outcome = "hit"
       THEN /\ gstat' = [ev |-> "hit",
                         env_sql |-> temp_env_of(sql_view(copy).value, matched.env_schema),
                         arg |-> copy.arg, out |-> IntV(xbuffer_value(copy))]
            /\ db_current_path_versions' = ld.versions
            /\ db_current_path_env_schemas' = ld.env_schemas
            /\ db_current_path_file_schemas' = ld.file_schemas
            /\ UNCHANGED store_vars
       ELSE /\ gstat' = [ev |-> "saved", env_sql |-> sv.env_sql,
                         arg |-> ran.arg, out |-> IntV(xbuffer_value(ran))]
            /\ dbPath' = sv.dbPath
            /\ dbPathVersion' = sv.dbPathVersion
            /\ dbResult' = sv.dbResult
            /\ db_current_path_versions' = sv.versions
            /\ db_current_path_env_schemas' = sv.env_schemas
            /\ db_current_path_file_schemas' = sv.file_schemas
  /\ UNCHANGED <<heap, x_frame>>

XNext ==
  \/ \E n \in XArgs : XSetArg(n)
  \/ \E v \in YVals : XSetY(v)
  \/ XUserRead
  \/ XRun

SpecX == XInit /\ [][XNext]_vars

\* C25: a run persists or matches, under the XBuffer's key, the cast output of
\* its function and no other entry for the buffer; and a run whose XBuffer
\* output and other parameters equal those of the run before it, whatever the
\* arguments, is a cache hit on the same environment.
C25_XBufferIdentityIsItsOutput ==
  [][ XRun =>
        /\ gstat'.env_sql = [k \in {"x", "d.y"} |->
                               IF k = "x" THEN gstat'.out ELSE heap[0].value["d.y"]]
        /\ \E r \in dbResult' : r.path_name = "X" /\ r.environment = gstat'.env_sql
        /\ (gstat.ev # "init" /\ gstat'.out = gstat.out
              /\ gstat.env_sql["d.y"] = heap[0].value["d.y"])
             => (gstat'.ev = "hit" /\ gstat'.env_sql = gstat.env_sql) ]_vars
C25_Witness ==
  /\ gstat.ev = "hit" /\ gstat.arg = 3 /\ gstat.out = IntV(1)
  /\ heap[0].memo = Null
  /\ \E r \in dbResult : r.path_name = "X" /\ r.environment["x"] = IntV(0)

(***************************************************************************)
(* Loading under an environment whose shape changed since the save:        *)
(* heap[0] is Journey.env with the kind of its child d (shape): the JDict   *)
(* {y}, a JValue, a JDict whose y holds a list, or no child d at all.       *)
(***************************************************************************)
Shapes == {"dict", "value", "uncastable", "absent"}
KEnv == [value |-> [k \in Leaves |-> IntV(1)], used |-> NoUsage, locked |-> NoUsage,
         shape |-> "dict"]

\* The walk of load_path_results (lines 481-492) over one dotted key under
\* the given shape: "" when the key resolves, else the exception raised by
\* jparam[key], jparam.data[key] or cast_sql_type.
resolve(shape, param_used) ==
  IF param_used # "d.y" THEN ""
  ELSE CASE shape = "dict" -> ""
         [] shape = "absent" -> "KeyError"
         [] shape = "value" -> "AttributeError"
         [] shape = "uncastable" -> "TypeError"

\* The env_schema load_path_results walks: the one of Path.current_version.
walked_schema(path_name) ==
  IF path_name \notin DOMAIN dbPath \/ version_rows(path_name, dbPath[path_name]) = {}
    THEN <<>>
    ELSE (CHOOSE v \in version_rows(path_name, dbPath[path_name]) : TRUE).env_schema

\* Journey.load_path_results under the shape of the environment.
load_under_shape(e, path_name) ==
  LET errors == {resolve(e.shape, k) : k \in DOMAIN walked_schema(path_name)} \ {""}
      ld == load_path_results(e, path_name)
  IN IF paths.save_datetime \/ errors = {} THEN ld
     ELSE [ld EXCEPT !.outcome = "raise", !.error = CHOOSE x \in errors : TRUE,
                     !.result = NoResult]

\* The hook reads d.y only from an environment that has it.
k_reads(e) == IF e.shape = "dict" THEN hook_reads(e.value) ELSE <<"x">>

NoKRun == [ev |-> "init", err |-> "", walked |-> <<>>]

KInit ==
  /\ JourneyIdle
  /\ heap = [o \in {0} |-> KEnv]
  /\ gstat = NoKRun
  /\ stack = <<>>
  /\ ptree = <<>> /\ buf = <<>> /\ reg = <<>>

\* Journey.env["x"] = v, Journey.env["d"]["y"] = v
KSetParam(k, v) ==
  /\ v \in ValsOf(k)
  /\ k = "d.y" => heap[0].shape = "dict"
  /\ heap' = [heap EXCEPT ![0].value[k] = v]
  /\ UNCHANGED <<gstat, store_vars, meta_vars, x_frame>>

\* Journey.env["d"] = {"y": 1}, = 5, = {"y": [1, 2]}; del Journey.env.data["d"]
KSetShape(shape) ==
  /\ heap' = [heap EXCEPT ![0].shape = shape, ![0].value["d.y"] = IntV(1)]
  /\ UNCHANGED <<gstat, store_vars, meta_vars, x_frame>>

\* journey.run(PathName, PathOptions()): the whole of Journey.run.
KRun ==
  /\ LET copy == [heap[0] EXCEPT !.used = NoUsage]
         ld == load_under_shape(copy, PathName)
         ran == [copy EXCEPT !.used = ReadAll(ld.used, k_reads(copy))]
         sv == save_path_results(ran, PathName, hook_result(0), "none")
     IN
     IF ld.outcome = "raise"
       THEN /\ gstat' = [ev |-> "raised", err |-> ld.error,
                         walked |-> walked_schema(PathName)]
            /\ UNCHANGED <<store_vars, meta_vars>>
     ELSE IF ld.outcome = "hit"
       THEN /\ gstat' = [ev |-> "hit", err |-> "", walked |-> walked_schema(PathName)]
            /\ UNCHANGED <<store_vars, meta_vars>>
       ELSE /\ gstat' = [ev |-> "saved", err |-> "", walked |-> walked_schema(PathName)]
            /\ dbPath' = sv.dbPath
            /\ dbPathVersion' = sv.dbPathVersion
            /\ dbResult' = sv.dbResult
            /\ db_current_path_versions' = sv.versions
            /\ db_current_path_env_schemas' = sv.env_schemas
            /\ db_current_path_file_schemas' = sv.file_schemas
  /\ UNCHANGED <<heap, x_frame>>

KNext ==
  \/ \E k \in Leaves, v \in XVals \cup YVals : KSetParam(k, v)
  \/ \E shape \in Shapes : KSetShape(shape)
  \/ KRun

SpecK == KInit /\ [][KNext]_vars

\* The stored schema names a key the environment cannot resolve.
Unresolvable ==
  \E k \in DOMAIN walked_schema(PathName) : resolve(heap[0].shape, k) # ""

\* C26: when a dotted key of the stored env_schema cannot be resolved in the
\* environment (absent key, intermediate node that is no Dict, leaf that
\* cannot be cast), the load is a miss: the run raises nothing, executes the
\* path and saves.
C26_UnresolvableKeyIsAMiss ==
  [][ (KRun /\ Unresolvable) => (gstat'.ev = "saved" /\ gstat'.err = "") ]_vars

(***************************************************************************)
(* Batches and subpaths of the run tree (SpecTree).                        *)
(***************************************************************************)
\* run_subpaths takes back a batch iteration that is not the first.
LaterIterationReturns ==
  TReturn /\ Len(stack) > 1 /\ Top.overlay # {} /\ Caller.j >= 1

\* C27: the usage of a batched subpath's environment is merged into the
\* parent's environment once, after the first batch iteration; the return of
\* a later iteration leaves every used flag of the parent's environment as
\* it was.
C27_BatchUsageMergedOnlyAfterFirstIteration ==
  [][ LaterIterationReturns
        => /\ heap'[Caller.obj].used = heap[Caller.obj].used
           /\ heap'[Caller.obj].bused = heap[Caller.obj].bused ]_vars


\* The used flags of the environment mirror, without the overlay's nodes.
UsedBelow(o, overlay) == {n \in Nodes : heap[o].used[n] /\ n \notin overlay}

\* C28: run_subpaths starts the subpaths in the order of the declared list
\* and the overlays of a batch in their insertion order; a subpath or overlay
\* is started by the activation that waits for it, so after the one before
\* it returned, and that return merged its usage into the parent's
\* environment and advanced the loop by one; the hook of a path starts only
\* once every subpath of its list has returned.
C28_SubpathsRunInOrderBeforeTheHook ==
  [][ /\ (TSub /\ Started)
           => /\ Top.st = "subpaths"
              /\ SubSeq(stack', 1, Len(stack)) = stack
              /\ stack'[Len(stack')].name = reg[Top.name].subpaths[Top.i]
              /\ IsBatched(Top.name)
                   => heap'[stack'[Len(stack')].obj].value["x"] = overlay_value(Top.j + 1)
      /\ (TReturn /\ Len(stack) > 1)
           => /\ UsedBelow(Top.obj, Top.overlay) \cup UsedBelow(Caller.obj, {})
                   = {n \in Nodes : heap'[Caller.obj].used[n]}
              /\ stack'[Len(stack')].st = "subpaths"
              /\ IF IsBatched(Caller.name)
                   THEN /\ stack'[Len(stack')].j = Caller.j + 1
                        /\ stack'[Len(stack')].i = Caller.i
                   ELSE stack'[Len(stack')].i = Caller.i + 1
      /\ (TSub /\ stack # <<>> /\ Len(stack') = Len(stack))
           => /\ stack'[Len(stack')].i \in {Top.i, Top.i + 1}
              /\ stack'[Len(stack')].i = Top.i + 1 => Top.j = reg[Top.name].get_batch
      /\ HookCalled => SubpathsDone ]_vars
C28_Witness ==
  /\ stack # <<>>
  /\ Top.name = "P" /\ Top.st = "subpaths" /\ Top.i = 2 /\ Top.j = 1
  /\ reg["P"].get_batch = MaxBatch
  /\ heap[Top.obj].bused


\* The dotted keys an environment is persisted (or matched) under.
UsedLeaves(h, o) == {k \in Leaves : h[o].used[k]}
\* The environment of the top activation is the one a row of the path has.
RowOfTop ==
  \E r \in dbResult' :
    /\ r.path_name = Top.name
    /\ DOMAIN r.environment = UsedLeaves(heap', Top.obj)

\* C29: every parameter a non-batched subpath consumed, by executing or by a
\* load hit, is marked used in its parent's environment when it returns, and
\* stays marked until the parent is saved: the keys of the row matched or
\* persisted for the subpath are the used leaves of its environment, the
\* return merges them into the parent's, no step of the run clears a used
\* flag of an activation that waits for its subpaths or its hook, and the
\* row persisted for the parent has every used leaf of its environment.
C29_SubpathUsageReachesTheParent ==
  [][ /\ ((IsHit \/ (HookReturns /\ ~gstat.disable)) /\ stack' # <<>>) => RowOfTop
      /\ (TReturn /\ Len(stack) > 1 /\ Top.overlay = {})
           => \A n \in Nodes : heap[Top.obj].used[n] => heap'[Caller.obj].used[n]
      /\ (IsRunStep /\ stack # <<>>)
           => \A k \in DOMAIN stack :
                (stack[k].st \in {"subpaths", "hook"} /\ k \in DOMAIN stack')
                  => \A n \in Nodes :
                       heap[stack[k].obj].used[n] => heap'[stack[k].obj].used[n] ]_vars
C29_Witness ==
  /\ gstat.ev = "saved" /\ gstat.name = "P"
  /\ reg["P"].get_batch = Null
  /\ \E r \in dbResult : r.path_name = "P" /\ DOMAIN r.environment = {"x", "d.y"}
  /\ \E r \in dbResult : r.path_name = "S" /\ DOMAIN r.environment = {"x"}


\* run_subpaths reaches a subpath of a path whose class keeps JPath's batch hook.
DefaultHookTurn ==
  /\ TSub
  /\ Top.i <= Len(reg[Top.name].subpaths)
  /\ reg[Top.name].get_batch = NoMethod

\* C30: for a path that does not override the batch hook, run_subpaths runs
\* each declared subpath once: its turn starts the subpath on a new deep copy
\* of the parent's environment with is_parent false, raises nothing, and the
\* subpath's return moves the loop to the next subpath.
C30_DefaultHookRunsEachSubpathOnce ==
  [][ /\ DefaultHookTurn
           => /\ Started
              /\ gstat'.err = ""
              /\ stack'[Len(stack')].name = reg[Top.name].subpaths[Top.i]
              /\ ~stack'[Len(stack')].is_parent
              /\ stack'[Len(stack')].obj \notin Held
              /\ heap'[stack'[Len(stack')].obj].value = heap[Top.obj].value
      /\ (TReturn /\ Len(stack) > 1 /\ reg[Caller.name].get_batch = NoMethod)
           => stack'[Len(stack')].i = Caller.i + 1 ]_vars

(***************************************************************************)
(* The Buffer's memo across the activations of one run: P with the         *)
(* subpaths S and T, run with disable_saving_and_loading. heap[o].memo is   *)
(* Null or the object whose read evaluated the function (0 is Journey.env), *)
(* so a memo is told from one that another environment acquired.           *)
(***************************************************************************)
MemoSubpaths == <<"S", "T">>
MemoEnv == [memo |-> Null, bused |-> FALSE, reset_condition |-> "NEVER"]
MemoFrame == [name |-> "P", obj |-> 1, st |-> "batch", i |-> 1]

\* Buffer._get_value (through get_value) on the environment o.
memo_read(e, o) == [e EXCEPT !.bused = TRUE, !.memo = IF @ = Null THEN o ELSE @]

\* local_env.init_run(is_parent); local_env.reset_usage()
memo_init_run(e, is_parent) ==
  [e EXCEPT !.memo = IF fires(e.reset_condition, is_parent) THEN Null ELSE @, !.bused = FALSE]

MemoInit ==
  /\ JourneyIdle
  /\ heap \in {[o \in {0} |-> [MemoEnv EXCEPT !.reset_condition = rc]] : rc \in ResetConditions}
  /\ stack = <<>>
  /\ gstat = [ev |-> "init"]
  /\ ptree = <<>> /\ buf = <<>> /\ reg = <<>>

memo_frame == <<journey_vars, param_vars, reg>>

\* The user reads Journey.env["b"] between runs.
MUserRead ==
  /\ stack = <<>>
  /\ heap' = [heap EXCEPT ![0] = memo_read(@, 0)]
  /\ gstat' = [ev |-> "user"]
  /\ UNCHANGED <<stack, memo_frame>>

\* Journey.run("P", PathOptions(disable_saving_and_loading=True)) up to
\* run_subpaths.
MStart ==
  /\ stack = <<>>
  /\ heap' = [o \in {0, 1} |-> IF o = 1 THEN memo_init_run(heap[0], TRUE) ELSE heap[0]]
  /\ stack' = <<MemoFrame>>
  /\ gstat' = [ev |-> "start"]
  /\ UNCHANGED memo_frame

\* self.paths[path_name].get_batch(subpath_name, local_env, subpath_results)
\* returning None: the hook reads env["b"] or does not.
MGetBatch(reads) ==
  /\ stack # <<>>
  /\ Top.st = "batch"
  /\ Top.i <= Len(MemoSubpaths)
  /\ heap' = [heap EXCEPT ![Top.obj] = IF reads THEN memo_read(@, Top.obj) ELSE @]
  /\ stack' = [stack EXCEPT ![Len(stack)].st = "sub"]
  /\ gstat' = [ev |-> "get_batch"]
  /\ UNCHANGED memo_frame

\* The subpath is started on a deep copy: model_copy and the head of _run.
MSub ==
  /\ stack # <<>>
  /\ Top.st = "sub"
  /\ LET o == Len(stack) + 1
     IN /\ heap' = [n \in DOMAIN heap \cup {o} |->
                      IF n = o THEN memo_init_run(heap[Top.obj], FALSE) ELSE heap[n]]
        /\ stack' = Append(stack, [MemoFrame EXCEPT !.name = MemoSubpaths[Top.i],
                                                    !.obj = o, !.st = "hook"])
  /\ gstat' = [ev |-> "sub"]
  /\ UNCHANGED memo_frame

\* The loop of run_subpaths is over: the path's own hook is next.
MSubpathsDone ==
  /\ stack # <<>>
  /\ Top.st = "batch"
  /\ Top.i > Len(MemoSubpaths)
  /\ stack' = [stack EXCEPT ![Len(stack)].st = "hook"]
  /\ gstat' = [ev |-> "subpaths_done"]
  /\ UNCHANGED <<heap, memo_frame>>

\* JPath.run: the hook reads env["b"] or does not.
MHook(reads) ==
  /\ stack # <<>>
  /\ Top.st = "hook"
  /\ heap' = [heap EXCEPT ![Top.obj] = IF reads THEN memo_read(@, Top.obj) ELSE @]
  /\ stack' = [stack EXCEPT ![Len(stack)].st = "done"]
  /\ gstat' = [ev |-> "ran"]
  /\ UNCHANGED memo_frame

\* _run returns: run_subpaths merges the usage, Journey.run drops the copy.
MReturn ==
  /\ stack # <<>>
  /\ Top.st = "done"
  /\ LET rest == SubSeq(stack, 1, Len(stack) - 1)
     IN IF rest = <<>>
          THEN /\ stack' = <<>>
               /\ heap' = [o \in {0} |-> heap[0]]
          ELSE /\ stack' = [rest EXCEPT ![Len(rest)].st = "batch", ![Len(rest)].i = @ + 1]
               /\ heap' = [o \in DOMAIN heap \ {Top.obj} |->
                             IF o = rest[Len(rest)].obj
                               THEN [heap[o] EXCEPT !.bused = @ \/ heap[Top.obj].bused]
                               ELSE heap[o]]
  /\ gstat' = [ev |-> "returned"]
  /\ UNCHANGED memo_frame

MemoNext ==
  \/ MUserRead
  \/ MStart
  \/ \E reads \in BOOLEAN : MGetBatch(reads)
  \/ MSub
  \/ MSubpathsDone
  \/ \E reads \in BOOLEAN : MHook(reads)
  \/ MReturn

SpecMemo == MemoInit /\ [][MemoNext]_vars

\* C31: a Buffer value memoized during one path invocation is visible in that
\* invocation only: the memo an environment holds was acquired through that
\* environment (or on Journey.env before the run), never in the invocation of
\* the parent, of a sibling or of a subpath, and Journey.env holds none that
\* an invocation acquired.
C31_MemoStaysInItsInvocation ==
  \A o \in DOMAIN heap : heap[o].memo \in {Null, 0, o}

(***************************************************************************)
(* The metadata dictionaries against the store (Spec).                     *)
(***************************************************************************)
\* What load_path_results answers from the store alone, as with
\* cache_db_meta = False: the kind of the outcome and the result.
uncached_load(value, path_name) ==
  IF paths.save_datetime \/ path_name \notin DOMAIN dbPath THEN <<"miss", NoResult>>
  ELSE
    LET pvs == version_rows(path_name, dbPath[path_name])
    IN
    IF pvs = {} THEN <<"miss", NoResult>>
    ELSE
      LET pv == CHOOSE v \in pvs : TRUE
          rows == result_rows(dbResult, path_name, pv.version,
                              temp_env_of(value, pv.env_schema))
      IN
      IF rows = {} THEN <<"miss", NoResult>>
      ELSE IF Cardinality(rows) > 1 THEN <<"load_raised", NoResult>>
      ELSE
        LET row == CHOOSE r \in rows : TRUE
            ff == from_file(row.data, row.file_path, pv.file_schema)
        IN IF ff.ok THEN <<"hit", ff.result>> ELSE <<"load_raised", NoResult>>

\* C32: enabling cache_db_meta does not change outcomes: whatever sequence of
\* loads and saves came before, a load answers the same hit, miss or error
\* and the same result as the load that reads the Path and PathVersion rows
\* from the store, also when the version is cached and the schema is not.
C32_CacheDbMetaDoesNotChangeOutcomes ==
  [][ IsLoad => <<last'.kind, last'.result>> = uncached_load(env, PathName) ]_vars

(***************************************************************************)
(* The IO registry under registrations and writes: WRITERS,                *)
(* RESOLVED_WRITERS and READERS map a class to the name of a function;      *)
(* gstat is the last call and the writer function it invoked.              *)
(***************************************************************************)
Classes == {"Base", "Derived"}
WriterFns == {"w1", "w2"}
NoCall == [op |-> "init", cls |-> "Base", fn |-> "none"]

\* The function io.write invokes for an object of class cls (lines 50-66).
write_fn(cls, writers, resolved) ==
  IF cls \in DOMAIN resolved THEN resolved[cls]
  ELSE IF first_registered(mro(cls), writers) = "none" THEN "none"
  ELSE writers[first_registered(mro(cls), writers)]

IOInit ==
  /\ JourneyIdle
  /\ gstat = NoCall
  /\ heap = <<>> /\ stack = <<>>
  /\ ptree = <<>> /\ buf = <<>> /\ reg = <<>>

io_frame == <<env, paths, cache_db_meta, meta_vars, store_vars, fs, pc, local_env, cur, last, param_vars, reg, tree_vars>>

\* register(cls, writer=fn, reader=...)
IORegister(cls, fn) ==
  /\ WRITERS' = (cls :> fn) @@ WRITERS
  /\ RESOLVED_WRITERS' = (cls :> fn) @@ RESOLVED_WRITERS
  /\ READERS' = (cls :> "read_base") @@ READERS
  /\ gstat' = [op |-> "register", cls |-> cls, fn |-> "none"]
  /\ UNCHANGED io_frame

\* @writable(cls) on the function fn
IOWritable(cls, fn) ==
  /\ WRITERS' = (cls :> fn) @@ WRITERS
  /\ gstat' = [op |-> "writable", cls |-> cls, fn |-> "none"]
  /\ UNCHANGED <<RESOLVED_WRITERS, READERS, io_frame>>

\* write(obj, file_path) for an object of class cls
IOWrite(cls) ==
  /\ LET fn == write_fn(cls, WRITERS, RESOLVED_WRITERS)
     IN /\ gstat' = [op |-> "write", cls |-> cls, fn |-> fn]
        /\ RESOLVED_WRITERS' = IF cls \in DOMAIN RESOLVED_WRITERS \/ fn = "none"
                                 THEN RESOLVED_WRITERS
                                 ELSE (cls :> fn) @@ RESOLVED_WRITERS
  /\ UNCHANGED <<WRITERS, READERS, io_frame>>

IONext ==
  \/ \E cls \in Classes, fn \in WriterFns : IORegister(cls, fn)
  \/ \E cls \in Classes, fn \in WriterFns : IOWritable(cls, fn)
  \/ \E cls \in Classes : IOWrite(cls)

SpecIO == IOInit /\ [][IONext]_vars

\* C33: whatever registrations and writes came before, write invokes the
\* writer that is registered, at the time of the call, for the nearest class
\* in the MRO of the object's type, also when an earlier write memoized the
\* resolution of that type.
C33_WriteUsesNearestRegisteredWriter ==
  [][ \A cls \in Classes :
        IOWrite(cls) => gstat'.fn = WRITERS[first_registered(mro(cls), WRITERS)] ]_vars

(***************************************************************************)
(* JDict.get_sql_data over the tree root{x, d{y}} whose children may be    *)
(* wrapped in an InvisibleParam: ptree = [value, used, invisible], used of  *)
(* a wrapped child being the wrapper's flag.                               *)
(***************************************************************************)
Wrappable == Nodes \ {root}

\* The projection without the test of the Dicts on the way.
sql_keys_flat(n, used, invisible, show_unused, show_invisible) ==
  {k \in Leaves : (used[k] \/ show_unused) /\ (k \notin invisible \/ show_invisible)}

RECURSIVE sql_keys(_, _, _, _, _)
\* JDict.get_sql_data with InvisibleParam.get_sql_data: the dotted keys.
sql_keys(n, used, invisible, show_unused, show_invisible) ==
  UNION { IF (used[c] \/ show_unused) /\ (c \notin invisible \/ show_invisible)
            THEN (IF IsDict(c)
                    THEN sql_keys(c, used, invisible, show_unused, show_invisible)
                    ELSE {c})
            ELSE {}
          : c \in Children[n] }

SqlInit ==
  /\ JourneyIdle
  /\ ptree \in {[value |-> [k \in Leaves |-> IntV(1)], used |-> NoUsage, invisible |-> w] :
                  w \in SUBSET Wrappable}
  /\ gstat = [op |-> "init", show_unused |-> FALSE, show_invisible |-> FALSE, out |-> <<>>]
  /\ buf = <<>> /\ reg = <<>> /\ heap = <<>> /\ stack = <<>>

sql_frame == <<journey_vars, buf, reg, tree_vars>>

\* env["x"], env["d"], env["d"]["y"]
SqlRead(k) ==
  /\ ptree' = [ptree EXCEPT !.used = ReadAll(@, param_path(k))]
  /\ gstat' = [gstat EXCEPT !.op = "read", !.out = <<>>]
  /\ UNCHANGED sql_frame

\* node.used = b on one node (the field is public), node.reset_usage()
SqlSetUsed(n, b) ==
  /\ ptree' = [ptree EXCEPT !.used[n] = b]
  /\ gstat' = [gstat EXCEPT !.op = "used", !.out = <<>>]
  /\ UNCHANGED sql_frame
SqlResetUsage ==
  /\ ptree' = [ptree EXCEPT !.used = reset_usage(@, root)]
  /\ gstat' = [gstat EXCEPT !.op = "reset_usage", !.out = <<>>]
  /\ UNCHANGED sql_frame

\* env.get_sql_data(show_unused, show_invisible)
SqlProject(show_unused, show_invisible) ==
  /\ gstat' = [op |-> "get_sql_data", show_unused |-> show_unused,
               show_invisible |-> show_invisible,
               out |-> [k \in sql_keys(root, ptree.used, ptree.invisible,
                                       show_unused, show_invisible)
                          |-> cast_sql_type(ptree.value[k])]]
  /\ UNCHANGED <<ptree, sql_frame>>

SqlNext ==
  \/ \E k \in Wrappable : SqlRead(k)
  \/ \E n \in Wrappable, b \in BOOLEAN : SqlSetUsed(n, b)
  \/ SqlResetUsage
  \/ \E show_unused, show_invisible \in BOOLEAN : SqlProject(show_unused, show_invisible)

SpecSql == SqlInit /\ [][SqlNext]_vars

\* A node qualifies for the projection the last call asked for.
Qualifies(n) ==
  /\ ptree.used[n] \/ gstat.show_unused
  /\ n \notin ptree.invisible \/ gstat.show_invisible

\* C34: get_sql_data returns the leaves under their dotted keys with their
\* cast values; a leaf is there if and only if it and every Dict on its way
\* are used or show_unused holds, and none of them is an InvisibleParam
\* unless show_invisible is set; with show_unused false no unread parameter
\* is in the projection.
C34_ProjectionKeepsQualifyingChildren ==
  gstat.op = "get_sql_data" =>
    /\ DOMAIN gstat.out =
         {k \in Leaves : \A i \in 1 .. Len(param_path(k)) : Qualifies(param_path(k)[i])}
    /\ \A k \in DOMAIN gstat.out : gstat.out[k] = cast_sql_type(ptree.value[k])
    /\ ~gstat.show_unused => \A k \in DOMAIN gstat.out : ptree.used[k]
C34_Witness ==
  /\ gstat.op = "get_sql_data"
  /\ ~gstat.show_unused /\ ~gstat.show_invisible
  /\ ptree.used["d.y"] /\ ~ptree.used["d"] /\ ptree.used["x"]
  /\ ptree.invisible = {}
  /\ DOMAIN gstat.out = {"x"}

(***************************************************************************)
(* validate_path on its own (SpecGraph).                                   *)
(***************************************************************************)
\* C35: validate_path(name, error=True) raises exactly when the path is
\* invalid: a subpath or a batched subpath of it is not registered, or it has
\* a circular dependency; it returns normally only for a valid path.
C35_ValidatePathRaisesForEveryInvalidPath ==
  [][ \A path_name \in Names :
        ValidatePath(path_name)
          => (gstat'.err = "ValueError"
                <=> \/ ~(Range(reg[path_name].subpaths) \subseteq DOMAIN reg)
                    \/ ~(reg[path_name].batched_subpaths \subseteq DOMAIN reg)
                    \/ circular_subpaths(reg, path_name, <<>>) # <<>>) ]_vars

(***************************************************************************)
(* A Refer and its referent: ptree is JDict{x: JValue, r: Refer("x")} as    *)
(* [x, r, jparam], jparam being Refer.jparam (set is FALSE while it is      *)
(* None); gstat is the last call with what it returned or raised.          *)
(***************************************************************************)
ReferVals == {1, 2, 3}
NoJParam == [set |-> FALSE, value |-> 1, used |-> FALSE]
ReferTree == [x |-> [value |-> 1, used |-> FALSE], r |-> [used |-> FALSE], jparam |-> NoJParam]
NoRefer == [op |-> "init", out |-> Null, err |-> ""]

\* Refer._init_run keeping the referent itself instead of a deep copy: a read
\* through the Refer then marks the referent.
refer_get_value_alias(t) ==
  [t EXCEPT !.r.used = TRUE, !.jparam.used = TRUE, !.x.used = TRUE]

\* Refer.get_value: self.used = True; self.jparam.get_value().
refer_get_value(t) == [t EXCEPT !.r.used = TRUE, !.jparam.used = TRUE]

\* Refer._init_run: self.jparam = (the node under reference_list).model_copy(deep=True)
refer_init_run(t) ==
  [t EXCEPT !.jparam = [set |-> TRUE, value |-> t.x.value, used |-> t.x.used]]

ReferInit ==
  /\ JourneyIdle
  /\ ptree = ReferTree
  /\ gstat = NoRefer
  /\ buf = <<>> /\ reg = <<>> /\ heap = <<>> /\ stack = <<>>

refer_frame == <<journey_vars, buf, reg, tree_vars>>

\* env["x"] = v: x has no dtype, so the key gets a new JValue; the same for
\* the overlay a batch writes with replace.
RSetX(v) ==
  /\ ptree' = [ptree EXCEPT !.x = [value |-> v, used |-> FALSE]]
  /\ gstat' = [NoRefer EXCEPT !.op = "setitem"]
  /\ UNCHANGED refer_frame

\* env["x"]
RReadX ==
  /\ ptree' = [ptree EXCEPT !.x.used = TRUE]
  /\ gstat' = [NoRefer EXCEPT !.op = "read_x", !.out = ptree.x.value]
  /\ UNCHANGED refer_frame

\* env.init_run(is_parent_path): the root is the supplied parent_env.
RInitRun ==
  /\ ptree' = refer_init_run(ptree)
  /\ gstat' = [NoRefer EXCEPT !.op = "init_run"]
  /\ UNCHANGED refer_frame

\* env.reset_usage(): the children in order; a Refer without jparam has the
\* child None.
RResetUsage ==
  /\ ptree' = [ptree EXCEPT !.x.used = FALSE, !.r.used = FALSE, !.jparam.used = FALSE]
  /\ gstat' = [NoRefer EXCEPT !.op = "reset_usage",
                              !.err = IF ptree.jparam.set THEN "" ELSE "AttributeError"]
  /\ UNCHANGED refer_frame

\* env["r"]
RRead ==
  /\ IF ptree.jparam.set
       THEN /\ ptree' = refer_get_value(ptree)
            /\ gstat' = [NoRefer EXCEPT !.op = "read_r", !.out = ptree.jparam.value]
       ELSE /\ ptree' = [ptree EXCEPT !.r.used = TRUE]
            /\ gstat' = [NoRefer EXCEPT !.op = "read_r", !.err = "AttributeError"]
  /\ UNCHANGED refer_frame

ReferNext ==
  \/ \E v \in ReferVals : RSetX(v)
  \/ RReadX
  \/ RInitRun
  \/ RResetUsage
  \/ RRead

SpecRefer == ReferInit /\ [][ReferNext]_vars

\* C36: init_run gives the Refer a deep copy of the node its reference names
\* under the supplied root, as that node is then; until the next init_run the
\* copy is untouched by assignments to the referent, and a read through the
\* Refer returns the copy's value and marks the Refer and the copy used,
\* never the referent.
C36_ReferReadsItsCopyOfTheReferent ==
  [][ /\ RInitRun => (ptree'.jparam.set /\ ptree'.jparam.value = ptree.x.value
                        /\ ptree'.x = ptree.x)
      /\ (\E v \in ReferVals : RSetX(v)) \/ RReadX => ptree'.jparam = ptree.jparam
      /\ (RRead /\ ptree.jparam.set)
           => /\ gstat'.err = "" /\ gstat'.out = ptree.jparam.value
              /\ ptree'.r.used /\ ptree'.jparam.used
              /\ ptree'.x = ptree.x ]_vars
C36_Witness ==
  /\ gstat.op = "read_r" /\ gstat.err = ""
  /\ gstat.out = 1 /\ ptree.x.value = 2
  /\ ptree.r.used /\ ptree.jparam.used /\ ~ptree.x.used

(***************************************************************************)
(* The lookup environment of load_path_results against the projection of   *)
(* save_path_results, per parameter kind: ptree is the environment         *)
(* JDict{p: node} as [kind, raw, stored], stored being the projection and   *)
(* schema the last save persisted; f is the function of the buffers, named  *)
(* by the code 0.                                                          *)
(***************************************************************************)
Kinds == {"value", "dtype", "nested", "buffer", "ybuffer", "xbuffer", "refer"}
RawVals == {1, 2, 3}
kind_f(n) == n % 2

\* The class of each node of the environment of that kind, by dotted name.
kind_nodes(kind) ==
  CASE kind = "value" -> [n \in {"p"} |-> "JValue"]
    [] kind = "dtype" -> [n \in {"p"} |-> "JValue"]
    [] kind = "nested" -> [n \in {"p", "p.k"} |-> IF n = "p" THEN "JDict" ELSE "JValue"]
    [] kind = "buffer" -> [n \in {"p", "p.n"} |-> IF n = "p" THEN "Buffer" ELSE "JValue"]
    [] kind = "ybuffer" -> [n \in {"p", "p.n"} |-> IF n = "p" THEN "YBuffer" ELSE "JValue"]
    [] kind = "xbuffer" -> [n \in {"p", "p.n"} |-> IF n = "p" THEN "XBuffer" ELSE "JValue"]
    [] OTHER -> [n \in {"p"} |-> "Refer"]

\* dtype(value) with dtype = str, else cast_sql_type(value), on a JValue.
kind_cast(kind, raw) == IF kind = "dtype" THEN StrV(raw) ELSE cast_sql_type(IntV(raw))

\* env.get_sql_data() with every node used: JValue, JDict, Buffer, XBuffer
\* and Refer.get_sql_data.
kind_sql_data(kind, raw) ==
  CASE kind \in {"value", "dtype", "refer"} -> [k \in {"p"} |-> kind_cast(kind, raw)]
    [] kind = "nested" -> [k \in {"p.k"} |-> kind_cast(kind, raw)]
    [] kind \in {"buffer", "ybuffer"} ->
         [k \in {"p.n", "p.var"} |-> IF k = "p.n" THEN kind_cast(kind, raw) ELSE StrV(0)]
    [] OTHER -> [k \in {"p"} |-> cast_sql_type(IntV(kind_f(raw)))]

\* The classes with a dtype attribute, and those whose get_value returns a
\* JDict (an object with data) rather than a plain value.
has_dtype(cls) == cls \in {"JValue", "XBuffer"}
returns_dict(cls) == cls = "JDict"

\* The walk of lines 482-492 over one dotted key: [err, value].
kind_walk(kind, raw, key) ==
  LET nodes == kind_nodes(kind)
      leaf == key
      two == key # "p"
  IN
  IF "p" \notin DOMAIN nodes THEN [err |-> "KeyError", value |-> IntV(Null)]
  ELSE IF two /\ ~returns_dict(nodes["p"])
    THEN \* env["p"] is a plain value: it has no attribute data
         [err |-> "AttributeError", value |-> IntV(Null)]
  ELSE IF leaf \notin DOMAIN nodes THEN [err |-> "KeyError", value |-> IntV(Null)]
  ELSE IF ~has_dtype(nodes[leaf]) THEN [err |-> "AttributeError", value |-> IntV(Null)]
  ELSE [err |-> "",
        value |-> IF nodes[leaf] = "XBuffer" THEN cast_sql_type(IntV(kind_f(raw)))
                  ELSE kind_cast(kind, raw)]

\* temp_env of load_path_results, or the first exception of the walk.
kind_temp_env(kind, raw, env_schema) ==
  LET errs == {k \in DOMAIN env_schema : kind_walk(kind, raw, k).err # ""}
  IN IF errs # {}
       THEN [err |-> kind_walk(kind, raw, CHOOSE k \in errs : TRUE).err, temp_env |-> <<>>]
       ELSE [err |-> "",
             temp_env |-> [k \in DOMAIN env_schema |-> kind_walk(kind, raw, k).value]]

NoStored == [saved |-> FALSE, kind |-> "value", raw |-> 1, env_sql |-> <<>>, env_schema |-> <<>>]
NoKind == [op |-> "init", err |-> "", temp_env |-> <<>>]

KindInit ==
  /\ JourneyIdle
  /\ ptree \in {[kind |-> kind, raw |-> 1, stored |-> NoStored] : kind \in Kinds}
  /\ gstat = NoKind
  /\ buf = <<>> /\ reg = <<>> /\ heap = <<>> /\ stack = <<>>

kind_frame == <<journey_vars, buf, reg, tree_vars>>

\* The user assigns the value (the buffer's argument, the referent).
KindSetRaw(raw) ==
  /\ ptree' = [ptree EXCEPT !.raw = raw]
  /\ gstat' = [NoKind EXCEPT !.op = "set"]
  /\ UNCHANGED kind_frame

\* save_path_results after a hook that read every parameter.
KindSave ==
  /\ ptree' = [ptree EXCEPT !.stored =
                 [saved |-> TRUE, kind |-> ptree.kind, raw |-> ptree.raw,
                  env_sql |-> kind_sql_data(ptree.kind, ptree.raw),
                  env_schema |-> get_sql_schema(kind_sql_data(ptree.kind, ptree.raw))]]
  /\ gstat' = [NoKind EXCEPT !.op = "save"]
  /\ UNCHANGED kind_frame

\* load_path_results up to the query for the Result row.
KindLoad ==
  /\ ptree.stored.saved
  /\ LET t == kind_temp_env(ptree.kind, ptree.raw, ptree.stored.env_schema)
     IN gstat' = [op |-> "load", err |-> t.err, temp_env |-> t.temp_env]
  /\ UNCHANGED <<ptree, kind_frame>>

KindNext ==
  \/ \E raw \in RawVals : KindSetRaw(raw)
  \/ KindSave
  \/ KindLoad

SpecKinds == KindInit /\ [][KindNext]_vars

\* C37: for every parameter kind a dotted schema key can reach, the lookup
\* environment load_path_results builds from the stored env_schema equals,
\* key by key, the environment save_path_results projected from the same
\* parameter values.
C37_LookupEnvironmentEqualsProjection ==
  [][ (KindLoad /\ ptree.stored.raw = ptree.raw)
        => (gstat'.err = "" /\ gstat'.temp_env = ptree.stored.env_sql) ]_vars

(***************************************************************************)
(* Referential integrity of the store (Spec).                              *)
(***************************************************************************)
\* C38: in every reachable store state, the one a save left when it failed
\* part-way included, every Result row references an existing PathVersion,
\* every PathVersion an existing Path, and a non-null Path.current_version is
\* the version of a PathVersion of that name.
C38_StoreKeepsReferentialIntegrity ==
  /\ \A r \in dbResult : version_rows(r.path_name, r.path_version_num) # {}
  /\ \A v \in dbPathVersion : v.name \in DOMAIN dbPath
  /\ \A n \in DOMAIN dbPath : dbPath[n] # Null => version_rows(n, dbPath[n]) # {}
C38_Witness ==
  /\ last.kind = "save_failed"
  /\ dbResult # {}
  /\ PathName \in DOMAIN dbPath
  /\ \E v \in dbPathVersion : v.name = PathName /\ v.version # dbPath[PathName]

(***************************************************************************)
(* Termination of Journey.run on a validated graph: reg is a registry over  *)
(* Names that validate_paths accepts, stack the activations of _run as      *)
(* [name, st, loaded, i, j, batch]: i is the turn of the loop over          *)
(* subpaths, batch the answer of the batch hook for that subpath and j the  *)
(* number of times the subpath was started in this turn.                   *)
(***************************************************************************)
MaxDepth == 4
RunFrame == [name |-> "A", st |-> "enter", loaded |-> FALSE, i |-> 1, j |-> 0, batch |-> Null]
ValidRegistries ==
  {r \in [Names -> PathShapes] :
     /\ \A n \in Names : r[n].batched_subpaths = {}
     /\ validate_paths(r)}

RunInit ==
  /\ JourneyIdle
  /\ reg \in ValidRegistries
  /\ stack = <<>>
  /\ gstat = [ev |-> "init"]
  /\ heap = <<>> /\ ptree = <<>> /\ buf = <<>>

run_frame == <<journey_vars, param_vars, heap, reg>>

\* Journey.run(path_name, PathOptions())
RunStart(path_name) ==
  /\ stack = <<>>
  /\ stack' = <<[RunFrame EXCEPT !.name = path_name]>>
  /\ gstat' = [ev |-> "start"]
  /\ UNCHANGED run_frame

\* _run up to run_subpaths: the load hits or misses; a hit below the root
\* returns at once.
RunEnter(hit) ==
  /\ stack # <<>>
  /\ Top.st = "enter"
  /\ stack' = [stack EXCEPT ![Len(stack)].loaded = hit,
                            ![Len(stack)].st = IF hit /\ Len(stack) > 1 THEN "done" ELSE "ask"]
  /\ gstat' = [ev |-> IF hit THEN "hit" ELSE "miss"]
  /\ UNCHANGED run_frame

\* The head of the loop over subpaths: the batch hook answers for the next
\* subpath (NoMethod: the class has no get_batch), or the loop is over.
RunGetBatch(batch) ==
  /\ stack # <<>>
  /\ Top.st = "ask"
  /\ IF Top.i > Len(reg[Top.name].subpaths)
       THEN /\ stack' = [stack EXCEPT ![Len(stack)].st = IF Top.loaded THEN "done" ELSE "hook"]
            /\ gstat' = [ev |-> "subpaths_done"]
     ELSE IF batch = NoMethod
       THEN /\ stack' = <<>>
            /\ gstat' = [ev |-> "raised"]
       ELSE /\ stack' = [stack EXCEPT ![Len(stack)].st = "sub",
                                      ![Len(stack)].batch = batch,
                                      ![Len(stack)].j = 0]
            /\ gstat' = [ev |-> "get_batch"]
  /\ UNCHANGED run_frame

\* The subpath is started once, or once for the next entry of the batch;
\* after the last start returned the loop goes on.
RunSub ==
  /\ stack # <<>>
  /\ Top.st = "sub"
  /\ IF Top.j < (IF Top.batch = Null THEN 1 ELSE Top.batch)
       THEN /\ Len(stack) < MaxDepth
            /\ stack' = Append([stack EXCEPT ![Len(stack)].j = @ + 1],
                               [RunFrame EXCEPT
                                  !.name = subpath_at(reg[Top.name].subpaths, Top.i)])
            /\ gstat' = [ev |-> "sub"]
       ELSE /\ stack' = [stack EXCEPT ![Len(stack)].st = "ask", ![Len(stack)].i = @ + 1]
            /\ gstat' = [ev |-> "next"]
  /\ UNCHANGED run_frame

\* The run hook returns or raises.
RunHook(raise) ==
  /\ stack # <<>>
  /\ Top.st = "hook"
  /\ IF raise
       THEN /\ stack' = <<>>
            /\ gstat' = [ev |-> "raised"]
       ELSE /\ stack' = [stack EXCEPT ![Len(stack)].st = "done"]
            /\ gstat' = [ev |-> "ran"]
  /\ UNCHANGED run_frame

\* _run returns to run_subpaths or to Journey.run.
RunReturn ==
  /\ stack # <<>>
  /\ Top.st = "done"
  /\ stack' = SubSeq(stack, 1, Len(stack) - 1)
  /\ gstat' = [ev |-> "returned"]
  /\ UNCHANGED run_frame

\* The steps of a run in flight.
RunStep ==
  \/ \E hit \in BOOLEAN : RunEnter(hit)
  \/ \E batch \in BatchHookValues : RunGetBatch(batch)
  \/ RunSub
  \/ \E raise \in BOOLEAN : RunHook(raise)
  \/ RunReturn

RunNext ==
  \/ \E path_name \in Names : RunStart(path_name)
  \/ RunStep

\* The interpreter keeps executing a call in flight.
SpecRun == RunInit /\ [][RunNext]_vars /\ WF_vars(RunStep)

\* C39: on a graph that passed validate_paths, with hooks that return or
\* raise and finite batches, Journey.run terminates, and during one execution
\* of a parent each declared subpath occurrence is started once, or once per
\* entry of its batch, before the loop moves on.
C39_RunTerminatesWithFiniteStarts ==
  /\ [][ /\ (RunSub /\ Len(stack') > Len(stack))
              => /\ stack'[Len(stack')].name = reg[Top.name].subpaths[Top.i]
                 /\ Top.j < (IF Top.batch = Null THEN 1 ELSE Top.batch)
         /\ (RunSub /\ Len(stack') = Len(stack))
              => Top.j = (IF Top.batch = Null THEN 1 ELSE Top.batch) ]_vars
  /\ (stack # <<>>) ~> (stack = <<>>)
C39_Witness ==
  /\ Len(stack) = 3
  /\ stack[1].batch = MaxBatch /\ stack[1].j = MaxBatch
  /\ stack[2].batch = Null /\ stack[2].j = 1
  /\ stack[3].st = "done"

====
